---------------------------- MODULE Spec2Model ----------------------------
(***************************************************************************)
(* Polybotz detection pipeline: rolling windows, robust statistics, the    *)
(* cooldown manager, the five detectors and the poll cycle that drives     *)
(* them (src/src/statistics.py, detector.py, poller.py, main.py).          *)
(*                                                                         *)
(* Conventions.  An optional value (Python's `x | None`) is a sequence of  *)
(* length at most one: None is <<>> and a present value v is <<v>>.  Real  *)
(* numbers are exact rationals [n, d] in lowest terms with d > 0; prices   *)
(* are counted in cents, so 0.50 is 50.  Floating-point rounding is not    *)
(* modelled.  The wall clock `now` counts ticks of 20 minutes and does not *)
(* move inside one poll cycle.                                             *)
(***************************************************************************)
EXTENDS Integers, Sequences, FiniteSets, TLC

VARIABLES
    arg,                \* the arguments of the pure function under test
    ret,                \* the record of the last call and what it returned
    now,                \* datetime.now(), in ticks
    observations,       \* RollingWindow.observations (a single window)
    entries,            \* CooldownManager.entries
    market_stats,       \* token id -> MarketStatistics (four windows)
    clob_data,          \* what poll_clob_markets returned in this cycle
    zscore_alerts,      \* the z-score alerts of this cycle
    mad_alerts,         \* the MAD alerts of this cycle
    suppressed,         \* the candidates should_alert turned down in this cycle
    events,             \* slug -> MonitoredEvent
    prior,              \* events as they were when the cycle started
    raw_data,           \* what fetch_all_events_raw returned in this cycle
    polled,             \* what poll_all_events fetched in this cycle
    closed_alerts,      \* the ClosedEventAlerts of this cycle
    slugs_to_remove,    \* the removal list of this cycle
    spikes,             \* the SpikeAlerts of this cycle
    warnings,           \* the LiquidityWarnings of this cycle
    sent,               \* the batches handed to the alerter, in order
    clob_token_ids,     \* the token ids this cycle polls
    config,             \* the Configuration in force
    pc,                 \* where the running process stands
    removed,            \* the slugs run_poll_cycle has deleted from events so far
    shutdown_requested, \* main.shutdown_requested
    slice,              \* the 1-second slices of the inter-cycle sleep done so far
    cycles,             \* how many poll cycles the main loop has started
    errors,             \* how many "Error in poll cycle" lines the loop has logged
    last_outcome,       \* how the last poll cycle ended, None before the first
    signal_at           \* where the loop stood when the first signal arrived

fnVars     == <<arg, ret>>
windowVars == <<observations>>
coolVars   == <<entries>>
clobVars   == <<market_stats, clob_data, zscore_alerts, mad_alerts, suppressed>>
gammaVars  == <<events, prior, raw_data, polled, closed_alerts,
                slugs_to_remove, spikes, warnings, sent, removed>>
mainVars   == <<shutdown_requested, slice, cycles, errors, last_outcome, signal_at>>
vars == <<arg, ret, now, observations, entries, market_stats, clob_data,
          zscore_alerts, mad_alerts, suppressed, events, prior, raw_data, polled,
          closed_alerts, slugs_to_remove, spikes, warnings, sent,
          clob_token_ids, config, pc, removed, shutdown_requested, slice,
          cycles, errors, last_outcome, signal_at>>

-----------------------------------------------------------------------------
(* Optional values *)

None == <<>>
Some(x) == <<x>>
IsNone(o) == o = <<>>
Val(o) == o[1]

-----------------------------------------------------------------------------
(* Exact arithmetic standing for Python floats *)

Abs(x) == IF x < 0 THEN -x ELSE x

RECURSIVE GCD(_, _)
GCD(a, b) == IF b = 0 THEN a ELSE GCD(b, a % b)

LCM(a, b) == (a \div GCD(a, b)) * b

\* a fraction in lowest terms with a positive denominator
RatNorm(n, d, g) == [n |-> n \div g, d |-> d \div g]

Rat(n, d) == RatNorm(IF d < 0 THEN -n ELSE n, Abs(d), GCD(Abs(n), Abs(d)))

R(i) == [n |-> i, d |-> 1]

\* l is the common denominator of x and y
RatAddOver(x, y, l) == Rat(x.n * (l \div x.d) + y.n * (l \div y.d), l)

RatAdd(x, y) == RatAddOver(x, y, LCM(x.d, y.d))

RatNeg(x) == [n |-> -x.n, d |-> x.d]

RatSub(x, y) == RatAdd(x, RatNeg(y))

\* g1 and g2 are the factors cancelled crosswise before multiplying
RatMulCancel(x, y, g1, g2) ==
    Rat((x.n \div g1) * (y.n \div g2), (x.d \div g2) * (y.d \div g1))

RatMul(x, y) == RatMulCancel(x, y, GCD(Abs(x.n), y.d), GCD(Abs(y.n), x.d))

RatDiv(x, y) == RatMul(x, Rat(y.d, y.n))

RatAbs(x) == [n |-> Abs(x.n), d |-> x.d]

RatLeOver(x, y, l) == x.n * (l \div x.d) <= y.n * (l \div y.d)

RatLe(x, y) == RatLeOver(x, y, LCM(x.d, y.d))

RatLt(x, y) == ~RatLe(y, x)

-----------------------------------------------------------------------------
(* detector.py: the spike detector *)

SpikeAlert(market, change_percent, direction) ==
    [event_name      |-> "",
     market_question |-> market.question,
     outcome         |-> market.outcome,
     price_before    |-> Val(market.previous_price),
     price_after     |-> Val(market.current_price),
     change_percent  |-> change_percent,
     direction       |-> direction]

\* The threshold test of detect_spike: below the threshold there is no spike.
detect_spike_strict(market, threshold) ==
    IF market.is_closed THEN None
    ELSE IF IsNone(market.previous_price) THEN None
    ELSE IF IsNone(market.current_price) THEN None
    ELSE IF Val(market.previous_price) = 0 THEN None
    ELSE
      LET change == Val(market.current_price) - Val(market.previous_price)
          change_percent ==
              RatMul(RatAbs(RatDiv(R(change), R(Val(market.previous_price)))),
                     R(100))
      IN  IF RatLe(change_percent, R(threshold)) THEN None
          ELSE Some(SpikeAlert(market, change_percent,
                               IF change > 0 THEN "up" ELSE "down"))

detect_spike(market, threshold) ==
    IF market.is_closed THEN None
    ELSE IF IsNone(market.previous_price) THEN None
    ELSE IF IsNone(market.current_price) THEN None
    ELSE IF Val(market.previous_price) = 0 THEN None
    ELSE
      LET change == Val(market.current_price) - Val(market.previous_price)
          change_percent ==
              RatMul(RatAbs(RatDiv(R(change), R(Val(market.previous_price)))),
                     R(100))
      IN  IF RatLt(change_percent, R(threshold)) THEN None
          ELSE Some(SpikeAlert(market, change_percent,
                               IF change > 0 THEN "up" ELSE "down"))


-----------------------------------------------------------------------------
(* models.py: MonitoredMarket *)

MonitoredMarket(id, question, outcome, cur, prev, closed, vol, liq, lvr, tok) ==
    [id |-> id, question |-> question, outcome |-> outcome,
     current_price |-> cur, previous_price |-> prev,
     is_closed |-> closed, volume_24h |-> vol,
     liquidity |-> liq, lvr |-> lvr, clob_token_id |-> tok]

-----------------------------------------------------------------------------
(* Values the variables of the other components keep while one component   *)
(* runs on its own.                                                        *)

FnIdle     == arg = None /\ ret = None
WindowIdle == observations = <<>>
CoolIdle   == entries = <<>>
ClobIdle   == /\ market_stats = <<>>
              /\ clob_data = <<>>
              /\ zscore_alerts = <<>>
              /\ mad_alerts = <<>>
              /\ suppressed = <<>>
GammaIdle  == /\ events = <<>>
              /\ prior = <<>>
              /\ raw_data = <<>>
              /\ polled = <<>>
              /\ closed_alerts = <<>>
              /\ slugs_to_remove = <<>>
              /\ spikes = <<>>
              /\ warnings = <<>>
              /\ sent = <<>>
              /\ removed = {}
MainIdle   == /\ shutdown_requested = FALSE
              /\ slice = 0
              /\ cycles = 0
              /\ errors = 0
              /\ last_outcome = None
              /\ signal_at = None

-----------------------------------------------------------------------------
(* detect_spike on its own: one market, one threshold, one call.           *)

SpikePrevious == {None, Some(0), Some(50), Some(60)}
SpikeCurrent  == {None, Some(0), Some(45), Some(50), Some(55), Some(60), Some(66)}
SpikeThresholds == {5, 10, 20}

SpikeMarkets ==
    {MonitoredMarket("m1", "q1", "Yes", c, p, k, None, None, None, None) :
        c \in SpikeCurrent, p \in SpikePrevious, k \in BOOLEAN}

InitSpike ==
    /\ clob_token_ids = <<>>
    /\ arg \in {Some([market |-> m, threshold |-> t]) :
                    m \in SpikeMarkets, t \in SpikeThresholds}
    /\ ret = None
    /\ now = 0
    /\ config = <<>>
    /\ pc = "call"
    /\ WindowIdle /\ CoolIdle /\ ClobIdle /\ GammaIdle /\ MainIdle

CallDetectSpike ==
    /\ pc = "call"
    /\ ret' = Some([op  |-> "detect_spike",
                    out |-> detect_spike(Val(arg).market, Val(arg).threshold)])
    /\ pc' = "returned"
    /\ UNCHANGED <<arg, now, config, clob_token_ids, windowVars, coolVars,
                   clobVars, gammaVars, mainVars>>

NextSpike == CallDetectSpike

SpecSpike == InitSpike /\ [][NextSpike]_vars

\* C5: detect_spike returns an alert iff the market is open, previous_price
\* is neither absent nor 0, current_price is present and
\* |current - previous| / previous * 100 >= threshold (equality fires); the
\* alert's direction is "up" for a positive change and "down" otherwise, and
\* its change_percent is the unsigned percentage.
C5_SpikeIff ==
    pc = "returned" =>
        LET m   == Val(arg).market
            t   == Val(arg).threshold
            out == Val(ret).out
            fires ==
                /\ ~m.is_closed
                /\ m.previous_price \notin {None, Some(0)}
                /\ m.current_price # None
                /\ Abs(Val(m.current_price) - Val(m.previous_price)) * 100
                       >= t * Val(m.previous_price)
        IN  /\ (out # None) <=> fires
            /\ out # None =>
                 LET c == Val(m.current_price)
                     p == Val(m.previous_price)
                 IN  /\ Val(out).direction = IF c > p THEN "up" ELSE "down"
                     /\ Val(out).change_percent.n * p
                            = Abs(c - p) * 100 * Val(out).change_percent.d
                     /\ Val(out).change_percent.n >= 0
                     /\ Val(out).price_before = p
                     /\ Val(out).price_after = c

\* C5 witness: a change exactly at the threshold (0.50 -> 0.55 at 10%) fired.
C5_Witness ==
    /\ pc = "returned"
    /\ Val(arg).market.previous_price = Some(50)
    /\ Val(arg).market.current_price = Some(55)
    /\ Val(arg).threshold = 10
    /\ Val(ret).out # None
    /\ Val(Val(ret).out).direction = "up"

-----------------------------------------------------------------------------
(* statistics.py: median, MAD, MAD-scaled z-score *)

RECURSIVE InsertSorted(_, _)
InsertSorted(x, xs) ==
    IF xs = <<>> THEN <<x>>
    ELSE IF RatLe(x, Head(xs)) THEN <<x>> \o xs
    ELSE <<Head(xs)>> \o InsertSorted(x, Tail(xs))

RECURSIVE sorted(_)
sorted(xs) == IF xs = <<>> THEN <<>> ELSE InsertSorted(Head(xs), sorted(Tail(xs)))

\* statistics.median of the standard library, for a non-empty sequence
median_sorted(s, n) ==
    IF n % 2 = 1 THEN s[(n + 1) \div 2]
    ELSE RatDiv(RatAdd(s[n \div 2], s[n \div 2 + 1]), R(2))

median_of(xs) == median_sorted(sorted(xs), Len(xs))

\* deviations = [abs(v - median_val) for v in values]
deviations(values, median_val) ==
    [i \in 1..Len(values) |-> RatAbs(RatSub(values[i], median_val))]

calculate_mad(values) ==
    IF values = <<>> THEN R(0)
    ELSE median_of(deviations(values, median_of(values)))

\* the consistency constant 1.4826
MadScale == Rat(14826, 10000)

\* a zero MAD read as "no deviation": a score of 0 in place of None
zscore_from_zero(current, median_val, mad_val) ==
    IF mad_val = R(0) THEN Some(R(0))
    ELSE Some(RatDiv(RatSub(current, median_val), RatMul(MadScale, mad_val)))

\* the end of calculate_zscore_mad, once median_val and mad_val are known
zscore_from(current, median_val, mad_val) ==
    IF mad_val = R(0) THEN None
    ELSE Some(RatDiv(RatSub(current, median_val), RatMul(MadScale, mad_val)))

calculate_zscore_mad(current, values) ==
    IF values = <<>> THEN None
    ELSE zscore_from(current, median_of(values), calculate_mad(values))

-----------------------------------------------------------------------------
(* statistics.py: RollingWindow.  A window is its deque of observations;   *)
(* the operators take the deque and the clock and give the deque back.     *)

Dur1h == 3
Dur4h == 12
MinObservations == 4

Observation(timestamp, value) == [timestamp |-> timestamp, value |-> value]

RECURSIVE _trim(_, _, _)
_trim(obs, duration, clock) ==
    IF obs # <<>> /\ Head(obs).timestamp < clock - duration
    THEN _trim(Tail(obs), duration, clock)
    ELSE obs

add(obs, value, timestamp, duration, clock) ==
    _trim(Append(obs, Observation(timestamp, value)), duration, clock)

\* the list the `values` property returns, once _trim has run
values_of(obs) == [i \in 1..Len(obs) |-> R(obs[i].value)]

median(obs) == IF Len(obs) < 1 THEN None ELSE Some(median_of(values_of(obs)))

mad(obs) == IF Len(obs) < 1 THEN None ELSE Some(calculate_mad(values_of(obs)))

\* a window that counts as valid one observation early
is_valid_one_short(obs) == Len(obs) >= MinObservations - 1

is_valid(obs) == Len(obs) >= MinObservations

-----------------------------------------------------------------------------
(* One RollingWindow of one hour on its own: any sequence of add, values,  *)
(* median, mad and is_valid calls, with the clock moving between them.     *)

MaxTime == 5
MaxLen == 3
WindowValues == {1, 4}

InitWindow ==
    /\ clob_token_ids = <<>>
    /\ observations = <<>>
    /\ now = 0
    /\ arg = None
    /\ ret = None
    /\ config = <<>>
    /\ pc = "window"
    /\ CoolIdle /\ ClobIdle /\ GammaIdle /\ MainIdle

WindowFrame ==
    UNCHANGED <<arg, now, config, pc, clob_token_ids, coolVars, clobVars, gammaVars,
                mainVars>>

\* add(value, timestamp) with an explicit timestamp, in any order
WAdd ==
    /\ pc = "window"
    /\ Len(observations) < MaxLen
    /\ \E value \in WindowValues, timestamp \in 0..MaxTime :
          /\ observations' = add(observations, value, timestamp, Dur1h, now)
          /\ ret' = Some([op |-> "add", timestamp |-> timestamp, value |-> value])
    /\ WindowFrame

WValues ==
    /\ pc = "window"
    /\ observations' = _trim(observations, Dur1h, now)
    /\ ret' = Some([op |-> "values", out |-> values_of(observations')])
    /\ WindowFrame

WMedian ==
    /\ pc = "window"
    /\ observations' = _trim(observations, Dur1h, now)
    /\ ret' = Some([op |-> "median", out |-> median(observations')])
    /\ WindowFrame

WMad ==
    /\ pc = "window"
    /\ observations' = _trim(observations, Dur1h, now)
    /\ ret' = Some([op |-> "mad", out |-> mad(observations')])
    /\ WindowFrame

WIsValid ==
    /\ pc = "window"
    /\ ret' = Some([op |-> "is_valid", out |-> is_valid(observations)])
    /\ UNCHANGED observations
    /\ WindowFrame

\* the wall clock moves; no operation has run at the new time yet
WTick ==
    /\ pc = "window"
    /\ now < MaxTime
    /\ now' = now + 1
    /\ ret' = None
    /\ UNCHANGED <<arg, observations, config, pc, clob_token_ids, coolVars,
                   clobVars, gammaVars, mainVars>>

NextWindow == WAdd \/ WValues \/ WMedian \/ WMad \/ WIsValid \/ WTick

SpecWindow == InitWindow /\ [][NextWindow]_vars

Expired(o, duration, clock) == clock - o.timestamp > duration

\* C6: once any operation (add, values, median, mad, is_valid) has run on the
\* window at the current wall-clock time, no observation older than the
\* duration is among the values the window returns and none is retained in
\* it, whatever the order of the timestamps that were added.
C6_NoExpiredAfterOperation ==
    ret # None =>
        /\ \A i \in 1..Len(_trim(observations, Dur1h, now)) :
              ~Expired(_trim(observations, Dur1h, now)[i], Dur1h, now)
        /\ \A i \in 1..Len(observations) :
              ~Expired(observations[i], Dur1h, now)

\* C18: an observation that is already older than the duration when it is
\* passed to add is not retained by that add and is not among the values
\* the window returns, whatever the window held before.
C18_StaleAddEvicted ==
    (/\ pc = "window" /\ ret # None /\ Val(ret).op = "add"
     /\ Expired(Observation(Val(ret).timestamp, Val(ret).value), Dur1h, now))
    => /\ \A i \in 1..Len(observations) :
             observations[i] # Observation(Val(ret).timestamp, Val(ret).value)
       /\ \A i \in 1..Len(_trim(observations, Dur1h, now)) :
             _trim(observations, Dur1h, now)[i]
                 # Observation(Val(ret).timestamp, Val(ret).value)

-----------------------------------------------------------------------------
(* detector.py: CooldownManager.  `ents` is the entries dict; the manager's *)
(* cooldown_minutes (counted in ticks) and escalation_threshold are read    *)
(* from `cfg`.                                                              *)

EmptyMap == [k \in {} |-> None]

CooldownEntry(key, last_alert_time, last_zscore) ==
    [key |-> key, last_alert_time |-> last_alert_time, last_zscore |-> last_zscore]

\* a key that leaves the window out
_make_key_no_window(market_id, metric, window) == <<market_id, metric, "1h">>

\* f"{market_id}:{metric}:{window}"
_make_key(market_id, metric, window) == <<market_id, metric, window>>

\* escalation judged on the size of the change, whatever its sign
should_alert_abs(ents, cfg, key, current_zscore, clock) ==
    IF cfg.cooldown_minutes = 0 THEN TRUE
    ELSE IF key \notin DOMAIN ents THEN TRUE
    ELSE
      LET entry == ents[key]
          elapsed == clock - entry.last_alert_time
      IN  IF elapsed >= cfg.cooldown_minutes THEN TRUE
          ELSE RatLe(cfg.escalation_threshold,
                     RatAbs(RatSub(current_zscore, entry.last_zscore)))

should_alert(ents, cfg, key, current_zscore, clock) ==
    IF cfg.cooldown_minutes = 0 THEN TRUE
    ELSE IF key \notin DOMAIN ents THEN TRUE
    ELSE
      LET entry == ents[key]
          elapsed == clock - entry.last_alert_time
          zscore_increase == RatSub(current_zscore, entry.last_zscore)
      IN  IF elapsed >= cfg.cooldown_minutes THEN TRUE
          ELSE IF RatLe(cfg.escalation_threshold, zscore_increase) THEN TRUE
          ELSE FALSE

\* a record that keeps the time of the first alert of a key
record_alert_first_time(ents, key, zscore, clock) ==
    [k \in DOMAIN ents \cup {key} |->
        IF k = key
        THEN CooldownEntry(key, IF key \in DOMAIN ents
                                THEN ents[key].last_alert_time ELSE clock, zscore)
        ELSE ents[k]]

record_alert(ents, key, zscore, clock) ==
    [k \in DOMAIN ents \cup {key} |->
        IF k = key THEN CooldownEntry(key, clock, zscore) ELSE ents[k]]

clear_entry(ents, key) == [k \in DOMAIN ents \ {key} |-> ents[k]]

\* a cleanup that removes every entry, young or old
cleanup_stale_all(ents, cfg, clock) ==
    IF cfg.cooldown_minutes = 0 THEN ents ELSE EmptyMap

\* a cleanup that also removes the entries exactly 2 x cooldown_minutes old
cleanup_stale_from(ents, cfg, clock) ==
    IF cfg.cooldown_minutes = 0 THEN ents
    ELSE [k \in {j \in DOMAIN ents :
                    clock - ents[j].last_alert_time < cfg.cooldown_minutes * 2}
             |-> ents[k]]

cleanup_stale(ents, cfg, clock) ==
    IF cfg.cooldown_minutes = 0 THEN ents
    ELSE
      LET stale_threshold == cfg.cooldown_minutes * 2
          stale_keys == {k \in DOMAIN ents :
                            clock - ents[k].last_alert_time > stale_threshold}
      IN  [k \in DOMAIN ents \ stale_keys |-> ents[k]]

-----------------------------------------------------------------------------
(* The CooldownManager on its own: any sequence of its methods, with the   *)
(* clock moving between them.                                              *)

CooldownKeys == {_make_key("t1", "volume", "1h"), _make_key("t1", "price", "1h")}
CooldownScores == {R(-3), R(1), R(2)}
CooldownConfigs ==
    {[cooldown_minutes |-> c, escalation_threshold |-> R(1)] : c \in {0, 2}}

InitCooldown ==
    /\ clob_token_ids = <<>>
    /\ entries = EmptyMap
    /\ config \in CooldownConfigs
    /\ now = 0
    /\ arg = None
    /\ ret = None
    /\ pc = "cooldown"
    /\ WindowIdle /\ ClobIdle /\ GammaIdle /\ MainIdle

CooldownFrame ==
    UNCHANGED <<arg, config, pc, clob_token_ids, windowVars, clobVars, gammaVars,
                mainVars>>

CShouldAlert ==
    /\ pc = "cooldown"
    /\ \E key \in CooldownKeys, score \in CooldownScores :
          ret' = Some([op |-> "should_alert", key |-> key, score |-> score,
                       out |-> should_alert(entries, config, key, score, now)])
    /\ UNCHANGED <<entries, now>>
    /\ CooldownFrame

CRecordAlert ==
    /\ pc = "cooldown"
    /\ \E key \in CooldownKeys, score \in CooldownScores :
          /\ entries' = record_alert(entries, key, score, now)
          /\ ret' = Some([op |-> "record_alert", key |-> key, score |-> score])
    /\ UNCHANGED now
    /\ CooldownFrame

CClearEntry ==
    /\ pc = "cooldown"
    /\ \E key \in CooldownKeys :
          /\ entries' = clear_entry(entries, key)
          /\ ret' = Some([op |-> "clear_entry", key |-> key])
    /\ UNCHANGED now
    /\ CooldownFrame

CCleanupStale ==
    /\ pc = "cooldown"
    /\ entries' = cleanup_stale(entries, config, now)
    /\ ret' = Some([op |-> "cleanup_stale",
                    removed |-> DOMAIN entries \ DOMAIN entries'])
    /\ UNCHANGED now
    /\ CooldownFrame

CTick ==
    /\ pc = "cooldown"
    /\ now < MaxTime
    /\ now' = now + 1
    /\ ret' = None
    /\ UNCHANGED entries
    /\ CooldownFrame

NextCooldown == CShouldAlert \/ CRecordAlert \/ CClearEntry \/ CCleanupStale \/ CTick

SpecCooldown == InitCooldown /\ [][NextCooldown]_vars

IsShouldAlertCall(r) == r # None /\ Val(r).op = "should_alert"

\* what the claim says should_alert(key, score) returns
C9_Expected(key, score) ==
    \/ config.cooldown_minutes = 0
    \/ key \notin DOMAIN entries
    \/ now - entries[key].last_alert_time >= config.cooldown_minutes
    \/ LET a == score
           b == entries[key].last_zscore
           e == config.escalation_threshold
       IN  a.n * b.d * e.d - b.n * a.d * e.d >= e.n * a.d * b.d

\* C9: should_alert(key, score) returns true iff cooldown_duration is 0, or
\* the key has no entry, or now - last_alert_time >= cooldown_duration, or
\* score - last_score >= escalation_delta (signed); and a call of
\* should_alert leaves the entries as they were.
C9_ShouldAlert ==
    /\ [](IsShouldAlertCall(ret) =>
            (Val(ret).out <=> C9_Expected(Val(ret).key, Val(ret).score)))
    /\ [][IsShouldAlertCall(ret') => entries' = entries]_vars

\* C9 witness: inside the cooldown a fall of the score larger than the
\* escalation threshold was suppressed.
C9_Witness ==
    /\ IsShouldAlertCall(ret)
    /\ ~Val(ret).out
    /\ Val(ret).key \in DOMAIN entries
    /\ entries[Val(ret).key].last_zscore = R(1)
    /\ Val(ret).score = R(-3)
    /\ now - entries[Val(ret).key].last_alert_time = 1

IsCleanupCall == pc = "cooldown" /\ ret # None /\ Val(ret).op = "cleanup_stale"

\* the entries that are not more than 2 x cooldown_minutes old
NotStale(ents, cfg, clock) ==
    [k \in {j \in DOMAIN ents :
                clock - ents[j].last_alert_time <= 2 * cfg.cooldown_minutes}
        |-> ents[k]]

-----------------------------------------------------------------------------
(* models.py, statistics.py: MarketStatistics.  market_stats is the dict   *)
(* token id -> MarketStatistics in insertion order: a sequence of records. *)

MarketStatistics(market_id) ==
    [market_id |-> market_id,
     volume_1h |-> <<>>, volume_4h |-> <<>>,
     price_1h  |-> <<>>, price_4h  |-> <<>>,
     last_updated |-> None]

IndexOf(ms, market_id) ==
    IF \E i \in 1..Len(ms) : ms[i].market_id = market_id
    THEN CHOOSE i \in 1..Len(ms) : ms[i].market_id = market_id
    ELSE 0

update_market_statistics(stats, price, volume, timestamp, clock) ==
    [stats EXCEPT
        !.volume_1h = add(@, volume, timestamp, Dur1h, clock),
        !.volume_4h = add(@, volume, timestamp, Dur4h, clock),
        !.price_1h  = add(@, price, timestamp, Dur1h, clock),
        !.price_4h  = add(@, price, timestamp, Dur4h, clock),
        !.last_updated = Some(timestamp)]

WindowDuration(window) == IF window = "1h" THEN Dur1h ELSE Dur4h

\* window_map.get((metric, window))
window_map(stats, metric, window) ==
    IF metric = "volume"
    THEN (IF window = "1h" THEN stats.volume_1h ELSE stats.volume_4h)
    ELSE (IF window = "1h" THEN stats.price_1h ELSE stats.price_4h)

SetWindow(stats, metric, window, obs) ==
    IF metric = "volume"
    THEN (IF window = "1h" THEN [stats EXCEPT !.volume_1h = obs]
                           ELSE [stats EXCEPT !.volume_4h = obs])
    ELSE (IF window = "1h" THEN [stats EXCEPT !.price_1h = obs]
                           ELSE [stats EXCEPT !.price_4h = obs])

\* What a detector leaves of the window it looked at: `values` trims it, and
\* `values` is read only once is_valid has let the detector pass.
AfterDetect(stats, metric, window, clock) ==
    LET rolling_window == window_map(stats, metric, window)
    IN  IF ~is_valid(rolling_window) THEN stats
        ELSE SetWindow(stats, metric, window,
                       _trim(rolling_window, WindowDuration(window), clock))

-----------------------------------------------------------------------------
(* detector.py: the z-score and the MAD detector *)

ZScoreAlert(market_id, metric, window, current, med, md, zscore, threshold) ==
    [market_id |-> market_id, metric |-> metric, window |-> window,
     current_value |-> current, median |-> med, mad |-> md,
     zscore |-> zscore, threshold |-> threshold]

MADAlert(market_id, metric, window, current, med, md, multiplier, threshold) ==
    [market_id |-> market_id, metric |-> metric, window |-> window,
     current_value |-> current, median |-> med, mad |-> md,
     multiplier |-> multiplier, threshold_multiplier |-> threshold]

\* a threshold test that lets |z| equal to the threshold through
zscore_alert_from_at_threshold(stats, threshold, metric, window, trimmed, current, zscore) ==
    IF zscore = None THEN None
    ELSE IF RatLt(RatAbs(Val(zscore)), R(threshold)) THEN None
    ELSE Some(ZScoreAlert(stats.market_id, metric, window, current,
                          Val(median(trimmed)), Val(mad(trimmed)),
                          Val(zscore), threshold))

\* the end of detect_zscore_alert, once the z-score of the newest value is known
zscore_alert_from(stats, threshold, metric, window, trimmed, current, zscore) ==
    IF zscore = None THEN None
    ELSE IF RatLe(RatAbs(Val(zscore)), R(threshold)) THEN None
    ELSE Some(ZScoreAlert(stats.market_id, metric, window, current,
                          Val(median(trimmed)), Val(mad(trimmed)),
                          Val(zscore), threshold))

\* detect_zscore_alert from `values = rolling_window.values` on
zscore_alert_on(stats, threshold, metric, window, trimmed, values) ==
    IF values = <<>> THEN None
    ELSE zscore_alert_from(stats, threshold, metric, window, trimmed,
                           values[Len(values)],
                           calculate_zscore_mad(values[Len(values)], values))

detect_zscore_alert(stats, threshold, metric, window, clock) ==
    LET rolling_window == window_map(stats, metric, window)
    IN  IF ~is_valid(rolling_window) THEN None
        ELSE zscore_alert_on(stats, threshold, metric, window,
                 _trim(rolling_window, WindowDuration(window), clock),
                 values_of(_trim(rolling_window, WindowDuration(window), clock)))

\* a multiplier test that lets a ratio equal to the multiplier through
mad_alert_from_at_threshold(stats, multiplier, metric, window, current, med, md, actual_multiplier) ==
    IF RatLt(actual_multiplier, R(multiplier)) THEN None
    ELSE Some(MADAlert(stats.market_id, metric, window, current, med, md,
                       actual_multiplier, multiplier))

\* the end of detect_mad_alert, once the median and the MAD are known
mad_alert_from(stats, multiplier, metric, window, current, med, md, actual_multiplier) ==
    IF RatLe(actual_multiplier, R(multiplier)) THEN None
    ELSE Some(MADAlert(stats.market_id, metric, window, current, med, md,
                       actual_multiplier, multiplier))

mad_alert_with(stats, multiplier, metric, window, current, med, md) ==
    IF med = None \/ md = None THEN None
    ELSE IF Val(md) = R(0) THEN None
    ELSE mad_alert_from(stats, multiplier, metric, window, current,
                        Val(med), Val(md),
                        RatDiv(RatAbs(RatSub(current, Val(med))), Val(md)))

\* detect_mad_alert from `values = rolling_window.values` on
mad_alert_on(stats, multiplier, metric, window, trimmed, values) ==
    IF values = <<>> THEN None
    ELSE mad_alert_with(stats, multiplier, metric, window,
                        values[Len(values)], median(trimmed), mad(trimmed))

detect_mad_alert(stats, multiplier, metric, window, clock) ==
    LET rolling_window == window_map(stats, metric, window)
    IN  IF ~is_valid(rolling_window) THEN None
        ELSE mad_alert_on(stats, multiplier, metric, window,
                 _trim(rolling_window, WindowDuration(window), clock),
                 values_of(_trim(rolling_window, WindowDuration(window), clock)))

\* One turn of the loops of detect_all_zscore_alerts, from `if alert:` on.
\* acc carries the alerts so far, the cooldown entries, the statistics and
\* the candidates turned down; ms1 is the statistics once the detector has
\* read the window.
zscore_turn_record_first(acc, ms1, key, alert, cfg, clock) ==
    IF alert = None THEN [acc EXCEPT !.ms = ms1]
    ELSE IF ~should_alert(acc.entries, cfg, key, Val(alert).zscore, clock)
    THEN [acc EXCEPT !.ms = ms1,
                     !.entries = record_alert(@, key, Val(alert).zscore, clock),
                     !.suppressed = Append(@, [key |-> key,
                                               score |-> Val(alert).zscore,
                                               entry |-> acc.entries[key]])]
    ELSE [alerts     |-> Append(acc.alerts, Val(alert)),
          entries    |-> record_alert(acc.entries, key, Val(alert).zscore, clock),
          ms         |-> ms1,
          suppressed |-> acc.suppressed]

zscore_turn(acc, ms1, key, alert, cfg, clock) ==
    IF alert = None THEN [acc EXCEPT !.ms = ms1]
    ELSE IF ~should_alert(acc.entries, cfg, key, Val(alert).zscore, clock)
    THEN [acc EXCEPT !.ms = ms1,
                     !.suppressed = Append(@, [key |-> key,
                                               score |-> Val(alert).zscore,
                                               entry |-> acc.entries[key]])]
    ELSE [alerts     |-> Append(acc.alerts, Val(alert)),
          entries    |-> record_alert(acc.entries, key, Val(alert).zscore, clock),
          ms         |-> ms1,
          suppressed |-> acc.suppressed]

\* market i of the dict, one window
ZScoreStep(acc, i, window, threshold, cfg, clock) ==
    zscore_turn(acc,
                [acc.ms EXCEPT ![i] = AfterDetect(@, "volume", window, clock)],
                _make_key(acc.ms[i].market_id, "volume", window),
                detect_zscore_alert(acc.ms[i], threshold, "volume", window, clock),
                cfg, clock)

\* one turn of the loops of detect_all_mad_alerts, from `if alert:` on
mad_turn(acc, ms1, key, alert, cfg, clock) ==
    IF alert = None THEN [acc EXCEPT !.ms = ms1]
    ELSE IF ~should_alert(acc.entries, cfg, key, Val(alert).multiplier, clock)
    THEN [acc EXCEPT !.ms = ms1,
                     !.suppressed = Append(@, [key |-> key,
                                               score |-> Val(alert).multiplier,
                                               entry |-> acc.entries[key]])]
    ELSE [alerts     |-> Append(acc.alerts, Val(alert)),
          entries    |-> record_alert(acc.entries, key, Val(alert).multiplier, clock),
          ms         |-> ms1,
          suppressed |-> acc.suppressed]

MadStep(acc, i, window, multiplier, cfg, clock) ==
    mad_turn(acc,
             [acc.ms EXCEPT ![i] = AfterDetect(@, "price", window, clock)],
             _make_key(acc.ms[i].market_id, "price", window),
             detect_mad_alert(acc.ms[i], multiplier, "price", window, clock),
             cfg, clock)

\* for market_id, stats in stats_dict.items(): for window in ("1h", "4h")
DetectSteps(ms) ==
    [k \in 1..(2 * Len(ms)) |->
        [i |-> (k + 1) \div 2, window |-> IF k % 2 = 1 THEN "1h" ELSE "4h"]]

RECURSIVE ZScoreFold(_, _, _, _, _)
ZScoreFold(acc, steps, threshold, cfg, clock) ==
    IF steps = <<>> THEN acc
    ELSE ZScoreFold(ZScoreStep(acc, Head(steps).i, Head(steps).window,
                               threshold, cfg, clock),
                    Tail(steps), threshold, cfg, clock)

RECURSIVE MadFold(_, _, _, _, _)
MadFold(acc, steps, multiplier, cfg, clock) ==
    IF steps = <<>> THEN acc
    ELSE MadFold(MadStep(acc, Head(steps).i, Head(steps).window,
                         multiplier, cfg, clock),
                 Tail(steps), multiplier, cfg, clock)

DetectStart(ms, ents) ==
    [alerts |-> <<>>, entries |-> ents, ms |-> ms, suppressed |-> <<>>]

detect_all_zscore_alerts(ms, threshold, ents, cfg, clock) ==
    ZScoreFold(DetectStart(ms, ents), DetectSteps(ms), threshold, cfg, clock)

detect_all_mad_alerts(ms, multiplier, ents, cfg, clock) ==
    MadFold(DetectStart(ms, ents), DetectSteps(ms), multiplier, cfg, clock)

-----------------------------------------------------------------------------
(* main.py: run_clob_poll_cycle *)

\* one turn of `for market_id, (price, volume) in clob_data.items()`
\* market_stats[market_id] = MarketStatistics(...) for a token not seen before
with_stats(ms, market_id) ==
    IF IndexOf(ms, market_id) = 0 THEN Append(ms, MarketStatistics(market_id))
    ELSE ms

update_at(ms1, item, clock) ==
    [ms1 EXCEPT ![IndexOf(ms1, item.market_id)] =
        update_market_statistics(@, Val(item.price), Val(item.volume), clock, clock)]

\* a loop that makes the statistics of a token before it looks at the reading
UpdateStep_create_first(ms, item, clock) ==
    IF item.price = None \/ item.volume = None THEN with_stats(ms, item.market_id)
    ELSE update_at(with_stats(ms, item.market_id), item, clock)

UpdateStep(ms, item, clock) ==
    IF item.price = None \/ item.volume = None THEN ms
    ELSE update_at(with_stats(ms, item.market_id), item, clock)

RECURSIVE UpdateFold(_, _, _)
UpdateFold(ms, data, clock) ==
    IF data = <<>> THEN ms
    ELSE UpdateFold(UpdateStep(ms, Head(data), clock), Tail(data), clock)

\* what the cycle leaves: z and m are the outcomes of the two detectors
clob_cycle_result(z, m) ==
    [ms |-> m.ms, entries |-> m.entries,
     zscore_alerts |-> z.alerts, mad_alerts |-> m.alerts,
     suppressed |-> z.suppressed \o m.suppressed]

\* from `if "mad" in config.detectors:` on
clob_mad_stage(z, cfg, clock) ==
    clob_cycle_result(z,
        IF "mad" \in cfg.detectors
        THEN detect_all_mad_alerts(z.ms, cfg.mad_multiplier, z.entries, cfg, clock)
        ELSE DetectStart(z.ms, z.entries))

\* a cycle that runs the z-score detector whatever config.detectors holds
clob_zscore_stage_ungated(ms1, ents, cfg, clock) ==
    clob_mad_stage(
        detect_all_zscore_alerts(ms1, cfg.zscore_threshold, ents, cfg, clock),
        cfg, clock)

\* from `if "zscore" in config.detectors:` on
clob_zscore_stage(ms1, ents, cfg, clock) ==
    clob_mad_stage(
        IF "zscore" \in cfg.detectors
        THEN detect_all_zscore_alerts(ms1, cfg.zscore_threshold, ents, cfg, clock)
        ELSE DetectStart(ms1, ents),
        cfg, clock)

run_clob_poll_cycle(ms, ents, data, cfg, clock) ==
    clob_zscore_stage(UpdateFold(ms, data, clock), ents, cfg, clock)

-----------------------------------------------------------------------------
(* The token half of the poll cycle on its own: cleanup_stale, the token   *)
(* poll, the window update, the z-score and MAD detectors, the sleep.      *)

MaxClobTime == 4

ClobTokenLists == {<<>>, <<"t1">>}

ClobReadings ==
    {<<None, Some(1)>>, <<Some(1), None>>,
     <<Some(1), Some(1)>>, <<Some(1), Some(2)>>, <<Some(1), Some(4)>>,
     <<Some(2), Some(1)>>, <<Some(4), Some(1)>>}

\* what poll_clob_markets can return for the token ids it is given
ClobResults(ids) ==
    {[k \in 1..Len(ids) |->
        [market_id |-> ids[k], price |-> f[k][1], volume |-> f[k][2]]] :
     f \in [1..Len(ids) -> ClobReadings]}

ClobConfigs ==
    {[detectors |-> d, zscore_threshold |-> 1, mad_multiplier |-> 1,
      cooldown_minutes |-> c, escalation_threshold |-> R(1)] :
        d \in {{"zscore", "mad"}, {}}, c \in {0, 2}}

InitClob ==
    /\ market_stats = <<>>
    /\ entries = EmptyMap
    /\ clob_data = <<>>
    /\ zscore_alerts = <<>>
    /\ mad_alerts = <<>>
    /\ suppressed = <<>>
    /\ clob_token_ids = <<>>
    /\ config \in ClobConfigs
    /\ now = 0
    /\ arg = None
    /\ ret = None
    /\ pc = "start"
    /\ WindowIdle /\ GammaIdle /\ MainIdle

ClobFrame == UNCHANGED <<arg, ret, config, windowVars, gammaVars, mainVars>>

\* run_poll_cycle up to the token poll: cleanup_stale, then the token ids
KStart ==
    /\ pc = "start"
    /\ entries' = cleanup_stale(entries, config, now)
    /\ \E ids \in ClobTokenLists :
          /\ clob_token_ids' = ids
          /\ pc' = IF ids = <<>> THEN "sleep" ELSE "clob"
    /\ UNCHANGED <<now, market_stats, clob_data, zscore_alerts, mad_alerts, suppressed>>
    /\ ClobFrame

KRunClobPollCycle ==
    /\ pc = "clob"
    /\ \E data \in ClobResults(clob_token_ids) :
        \E out \in {run_clob_poll_cycle(market_stats, entries, data, config, now)} :
              /\ clob_data' = data
              /\ market_stats' = out.ms
              /\ entries' = out.entries
              /\ zscore_alerts' = out.zscore_alerts
              /\ mad_alerts' = out.mad_alerts
              /\ suppressed' = out.suppressed
    /\ pc' = "sleep"
    /\ UNCHANGED <<now, clob_token_ids>>
    /\ ClobFrame

\* the inter-cycle sleep; the cycle's locals are gone
KSleep ==
    /\ pc = "sleep"
    /\ now < MaxClobTime
    /\ now' = now + 1
    /\ pc' = "start"
    /\ clob_token_ids' = <<>>
    /\ clob_data' = <<>>
    /\ zscore_alerts' = <<>>
    /\ mad_alerts' = <<>>
    /\ suppressed' = <<>>
    /\ UNCHANGED <<market_stats, entries>>
    /\ ClobFrame

NextClob == KStart \/ KRunClobPollCycle \/ KSleep

SpecClob == InitClob /\ [][NextClob]_vars


AlertKey(a) == _make_key(a.market_id, a.metric, a.window)

ClobMetrics == {"volume", "price"}
ClobWindows == {"1h", "4h"}

\* the observations of a window that have not expired at `clock`
Unexpired(obs, duration, clock) ==
    {i \in 1..Len(obs) : ~Expired(obs[i], duration, clock)}

\* the alerts of this cycle raised for one window of one market
AlertsFor(market_id, metric, window) ==
    {j \in 1..Len(zscore_alerts) :
        AlertKey(zscore_alerts[j]) = _make_key(market_id, metric, window)}
    \cup
    {j \in 1..Len(mad_alerts) :
        AlertKey(mad_alerts[j]) = _make_key(market_id, metric, window)}

\* C2: in detect_all_zscore_alerts and detect_all_mad_alerts a candidate for
\* which should_alert returned false adds no alert to the output of the
\* cycle and leaves the cooldown entry of its key as it was before the cycle.
C2_SuppressedLeavesEntry ==
    [][pc = "clob" =>
        \A k \in 1..Len(suppressed') :
            /\ ~should_alert(entries, config, suppressed'[k].key,
                             suppressed'[k].score, now)
            /\ \A j \in 1..Len(zscore_alerts') :
                  AlertKey(zscore_alerts'[j]) # suppressed'[k].key
            /\ \A j \in 1..Len(mad_alerts') :
                  AlertKey(mad_alerts'[j]) # suppressed'[k].key
            /\ suppressed'[k].key \in DOMAIN entries'
            /\ entries'[suppressed'[k].key] = entries[suppressed'[k].key]]_vars

\* C2 witness: a cycle has turned down a candidate whose key alerted in an
\* earlier cycle, inside the cooldown.
C2_Witness ==
    /\ pc = "sleep"
    /\ Len(suppressed) > 0
    /\ suppressed[1].key \in DOMAIN entries
    /\ entries[suppressed[1].key].last_alert_time < now
    /\ now - entries[suppressed[1].key].last_alert_time < config.cooldown_minutes

\* the score record_alert is given for an alert
AlertScore(a) == IF "zscore" \in DOMAIN a THEN a.zscore ELSE a.multiplier

CycleAlerts(zs, ms) ==
    {zs[j] : j \in 1..Len(zs)} \cup {ms[j] : j \in 1..Len(ms)}

\* C20: in a cycle the cooldown entry of a key is created or changed only
\* if the cycle's output holds an alert of that key whose score passed
\* should_alert, and then the entry is (now, score of that alert); every
\* alert of the output has such an entry; outside the detectors no entry is
\* created or changed.
C20_RecordOnlyOnAlert ==
    [][IF pc = "clob"
       THEN /\ \A key \in DOMAIN entries' :
                  (key \notin DOMAIN entries \/ entries'[key] # entries[key]) =>
                     \E a \in CycleAlerts(zscore_alerts', mad_alerts') :
                        /\ AlertKey(a) = key
                        /\ should_alert(entries, config, key, AlertScore(a), now)
                        /\ entries'[key] = CooldownEntry(key, now, AlertScore(a))
            /\ \A a \in CycleAlerts(zscore_alerts', mad_alerts') :
                  /\ AlertKey(a) \in DOMAIN entries'
                  /\ entries'[AlertKey(a)]
                        = CooldownEntry(AlertKey(a), now, AlertScore(a))
       ELSE \A key \in DOMAIN entries' :
                key \in DOMAIN entries /\ entries'[key] = entries[key]]_vars

\* a cycle has raised an alert and recorded its entry, has turned down a
\* candidate, and an entry of another key is left from an earlier cycle
C20_Witness ==
    /\ pc = "sleep"
    /\ config.cooldown_minutes > 0
    /\ suppressed # <<>>
    /\ \E a \in CycleAlerts(zscore_alerts, mad_alerts) :
          /\ entries[AlertKey(a)] = CooldownEntry(AlertKey(a), now, AlertScore(a))
          /\ \E k \in DOMAIN entries :
                k # AlertKey(a) /\ entries[k].last_alert_time < now

\* C7: a window with fewer than min_observations unexpired observations
\* reports is_valid false, and a cycle raises no z-score or MAD alert for
\* it, also when the observations expired in a gap without readings.
C7_TooFewUnexpired ==
    \A i \in 1..Len(market_stats) : \A metric \in ClobMetrics, window \in ClobWindows :
        Cardinality(Unexpired(window_map(market_stats[i], metric, window),
                              WindowDuration(window), now)) < MinObservations
        => /\ ~is_valid(window_map(market_stats[i], metric, window))
           /\ AlertsFor(market_stats[i].market_id, metric, window) = {}

\* the detector half of C7 alone: no alert for a window with too few
\* unexpired observations
C7_NoAlertTooFew ==
    \A i \in 1..Len(market_stats) : \A metric \in ClobMetrics, window \in ClobWindows :
        Cardinality(Unexpired(window_map(market_stats[i], metric, window),
                              WindowDuration(window), now)) < MinObservations
        => AlertsFor(market_stats[i].market_id, metric, window) = {}

AllSame(values) == \A i \in 1..Len(values) : values[i] = values[1]

\* C8: when every value a window holds is the same, its MAD is 0,
\* calculate_zscore_mad gives None for its newest value, and the cycle
\* raises no z-score or MAD alert for it.
C8_IdenticalValues ==
    \A i \in 1..Len(market_stats) : \A metric \in ClobMetrics, window \in ClobWindows :
        \A trimmed \in {_trim(window_map(market_stats[i], metric, window),
                              WindowDuration(window), now)} :
            (trimmed # <<>> /\ AllSame(values_of(trimmed)))
            => /\ mad(trimmed) = Some(R(0))
               /\ calculate_zscore_mad(values_of(trimmed)[Len(trimmed)],
                                       values_of(trimmed)) = None
               /\ AlertsFor(market_stats[i].market_id, metric, window) = {}

\* C8 witness: the detectors have run over a valid window of one repeated
\* value.
C8_Witness ==
    /\ pc = "sleep"
    /\ "zscore" \in config.detectors
    /\ "mad" \in config.detectors
    /\ clob_data # <<>>
    /\ Len(market_stats) > 0
    /\ is_valid(market_stats[1].price_1h)
    /\ AllSame(values_of(_trim(market_stats[1].price_1h, Dur1h, now)))
    /\ market_stats[1].last_updated = Some(now)

-----------------------------------------------------------------------------
(* models.py, poller.py: events and the event responses of the Gamma API.  *)
(* An event response is a record slug, title, markets; a market of a       *)
(* response is a record conditionId, question, outcomes, outcomePrices,    *)
(* clobTokenIds, closed, volume24hr, liquidityNum, with the three lists    *)
(* already decoded.  The events dict, raw_data and the other dicts are     *)
(* sequences in insertion order.                                           *)

MonitoredEvent(slug, name, markets) ==
    [slug |-> slug, name |-> name, markets |-> markets]

\* the MonitoredMarket built for outcome i of one market of the response
parse_outcome(market_data, i) ==
    MonitoredMarket(market_data.conditionId, market_data.question,
                    market_data.outcomes[i],
                    IF i <= Len(market_data.outcomePrices)
                        THEN Some(market_data.outcomePrices[i]) ELSE None,
                    None, market_data.closed,
                    market_data.volume24hr, market_data.liquidityNum, None,
                    IF i <= Len(market_data.clobTokenIds)
                        THEN Some(market_data.clobTokenIds[i]) ELSE None)

parse_market(market_data) ==
    [i \in 1..Len(market_data.outcomes) |-> parse_outcome(market_data, i)]

RECURSIVE parse_markets(_)
parse_markets(api_markets) ==
    IF api_markets = <<>> THEN <<>>
    ELSE parse_market(Head(api_markets)) \o parse_markets(Tail(api_markets))

parse_event_response(data) ==
    MonitoredEvent(data.slug, data.title, parse_markets(data.markets))

calculate_lvr(volume_24h, liquidity) ==
    IF liquidity = None \/ Val(liquidity) <= 0 THEN None
    ELSE IF volume_24h = None THEN None
    ELSE Some(Rat(Val(volume_24h), Val(liquidity)))

\* the greatest index of a set of indices, 0 for the empty set: which entry
\* of a dict built in a loop a key ends up with
LastOf(S) == IF S = {} THEN 0 ELSE CHOOSE i \in S : \A j \in S : j <= i

\* existing = {(m.id, m.outcome): m for m in event.markets}
existing_index(markets, id, outcome) ==
    LastOf({i \in 1..Len(markets) :
               markets[i].id = id /\ markets[i].outcome = outcome})

\* an update that never carries a price over
update_market_fresh(existing, new_market, k) ==
    [new_market EXCEPT
        !.lvr = calculate_lvr(new_market.volume_24h, new_market.liquidity)]

\* an update that carries over the previous price instead of the current one
update_market_stale(existing, new_market, k) ==
    [new_market EXCEPT
        !.previous_price = IF k = 0 THEN @ ELSE existing[k].previous_price,
        !.lvr = calculate_lvr(new_market.volume_24h, new_market.liquidity)]

\* one turn of `for new_market in new_event.markets`; k is the index of the
\* existing market with the same (id, outcome), 0 when there is none
update_market(existing, new_market, k) ==
    [new_market EXCEPT
        !.previous_price = IF k = 0 THEN @ ELSE existing[k].current_price,
        !.lvr = calculate_lvr(new_market.volume_24h, new_market.liquidity)]

update_markets(existing, new_markets) ==
    [i \in 1..Len(new_markets) |->
        update_market(existing, new_markets[i],
                      existing_index(existing, new_markets[i].id,
                                     new_markets[i].outcome))]

update_prices(event, new_data) ==
    MonitoredEvent(event.slug, parse_event_response(new_data).name,
                   update_markets(event.markets,
                                  parse_event_response(new_data).markets))

\* fetched[i] is what fetch_event_by_slug gave for the i-th event: None for
\* a failed fetch
poll_all_events(evs, fetched) ==
    [i \in 1..Len(evs) |->
        IF fetched[i] = None THEN evs[i]
        ELSE update_prices(evs[i], Val(fetched[i]))]

RECURSIVE fetch_all_events_raw(_, _)
fetch_all_events_raw(evs, fetched) ==
    IF evs = <<>> THEN <<>>
    ELSE (IF Head(fetched) = None THEN <<>>
          ELSE <<[slug |-> Head(evs).slug, data |-> Val(Head(fetched))]>>)
         \o fetch_all_events_raw(Tail(evs), Tail(fetched))

-----------------------------------------------------------------------------
(* detector.py: detect_all_spikes, the liquidity warning, closed markets   *)

spike_named(m, threshold, name) ==
    [Val(detect_spike(m, threshold)) EXCEPT !.event_name = name]

spiking(markets, threshold) ==
    SelectSeq(markets, LAMBDA m : detect_spike(m, threshold) # None)

spikes_of_markets(hits, threshold, name) ==
    [i \in 1..Len(hits) |-> spike_named(hits[i], threshold, name)]

RECURSIVE detect_all_spikes(_, _)
detect_all_spikes(evs, threshold) ==
    IF evs = <<>> THEN <<>>
    ELSE spikes_of_markets(spiking(Head(evs).markets, threshold), threshold,
                           Head(evs).name)
         \o detect_all_spikes(Tail(evs), threshold)

classify_lvr_health(lvr) ==
    IF RatLt(lvr, R(2)) THEN "Healthy"
    ELSE IF RatLt(lvr, R(10)) THEN "Elevated"
    ELSE "High Risk"

LiquidityWarning(event_name, market, spike) ==
    [event_name      |-> event_name,
     market_question |-> market.question,
     outcome         |-> market.outcome,
     price_before    |-> spike.price_before,
     price_after     |-> spike.price_after,
     change_percent  |-> spike.change_percent,
     direction       |-> spike.direction,
     lvr             |-> Val(market.lvr),
     health_status   |-> classify_lvr_health(Val(market.lvr)),
     volume_24h      |-> market.volume_24h,
     liquidity       |-> market.liquidity]

\* a test that lets lvr equal to the threshold through
detect_liquidity_warning_at_threshold(market, spike, lvr_threshold, event_name) ==
    IF market.lvr = None THEN None
    ELSE IF RatLt(Val(market.lvr), R(lvr_threshold)) THEN None
    ELSE Some(LiquidityWarning(event_name, market, spike))

detect_liquidity_warning(market, spike, lvr_threshold, event_name) ==
    IF market.lvr = None THEN None
    ELSE IF RatLe(Val(market.lvr), R(lvr_threshold)) THEN None
    ELSE Some(LiquidityWarning(event_name, market, spike))

\* the (market, event.name) pairs in the order the lookup loop meets them
RECURSIVE market_pairs(_)
market_pairs(evs) ==
    IF evs = <<>> THEN <<>>
    ELSE [i \in 1..Len(Head(evs).markets) |->
             [market |-> Head(evs).markets[i], event_name |-> Head(evs).name]]
         \o market_pairs(Tail(evs))

\* the lookup without its key: any market of any event
market_lookup_any(pairs, spike) == LastOf(1..Len(pairs))

\* market_lookup[key]: the index of the last pair filed under the spike's
\* key (event.name, market.question, market.outcome), 0 when there is none
market_lookup(pairs, spike) ==
    LastOf({i \in 1..Len(pairs) :
               /\ pairs[i].event_name = spike.event_name
               /\ pairs[i].market.question = spike.market_question
               /\ pairs[i].market.outcome = spike.outcome})

\* one turn of `for spike in spikes`, the warning or None
warning_of_spike(pairs, spike, lvr_threshold, k) ==
    IF k = 0 THEN None
    ELSE detect_liquidity_warning(pairs[k].market, spike, lvr_threshold,
                                  pairs[k].event_name)

RECURSIVE warnings_of_spikes(_, _, _)
warnings_of_spikes(pairs, spks, lvr_threshold) ==
    IF spks = <<>> THEN <<>>
    ELSE warning_of_spike(pairs, Head(spks), lvr_threshold,
                          market_lookup(pairs, Head(spks)))
         \o warnings_of_spikes(pairs, Tail(spks), lvr_threshold)

detect_all_liquidity_warnings(evs, spks, lvr_threshold) ==
    warnings_of_spikes(market_pairs(evs), spks, lvr_threshold)

ClosedEventAlert(event, market, final_price) ==
    [event_name      |-> event.name,
     event_slug      |-> event.slug,
     market_question |-> market.question,
     outcome         |-> market.outcome,
     final_price     |-> final_price]

\* the index of new_data[slug], 0 when the slug is not in new_data
raw_index(new_data, slug) ==
    LastOf({i \in 1..Len(new_data) : new_data[i].slug = slug})

\* api_market_lookup.get(question): index of the last market of the response
\* with the question, 0 for none
api_market_index(api_markets, question) ==
    LastOf({i \in 1..Len(api_markets) : api_markets[i].question = question})

\* market.outcome.lower() == "yes"
is_yes(outcome) == outcome \in {"yes", "Yes", "YES"}

\* prices[idx] with idx = 0 for "yes" and 1 otherwise, None out of range
final_price_at(outcome_prices, idx) ==
    IF idx <= Len(outcome_prices) THEN Some(outcome_prices[idx]) ELSE None

final_price_of(market, api_market) ==
    IF api_market.outcomePrices = <<>> THEN None
    ELSE final_price_at(api_market.outcomePrices,
                        IF is_yes(market.outcome) THEN 1 ELSE 2)

\* an alert for every market the response reports closed
just_closed_any(market, api_markets, k) ==
    k # 0 /\ api_markets[k].closed

\* `if new_closed and not market.is_closed`, k the index of the api market
just_closed(market, api_markets, k) ==
    k # 0 /\ api_markets[k].closed /\ ~market.is_closed

closing(event, api_markets) ==
    SelectSeq(event.markets,
              LAMBDA m : just_closed(m, api_markets,
                                     api_market_index(api_markets, m.question)))

closed_alerts_of(event, api_markets, hits) ==
    [i \in 1..Len(hits) |->
        ClosedEventAlert(event, hits[i],
            final_price_of(hits[i],
                api_markets[api_market_index(api_markets, hits[i].question)]))]

\* all_closed, were a tracked market the response does not list counted as
\* still open
all_closed_listed(event, api_markets) ==
    \A i \in 1..Len(event.markets) :
        /\ api_market_index(api_markets, event.markets[i].question) # 0
        /\ api_markets[api_market_index(api_markets,
                                        event.markets[i].question)].closed

\* all_closed once the loop over the tracked markets has ended: a tracked
\* market the response does not list is passed over
all_closed(event, api_markets) ==
    \A i \in 1..Len(event.markets) :
        \/ api_market_index(api_markets, event.markets[i].question) = 0
        \/ api_markets[api_market_index(api_markets,
                                        event.markets[i].question)].closed

\* one turn of `for slug, event in events.items()`
closed_of_event(event, api_markets) ==
    [alerts |-> closed_alerts_of(event, api_markets, closing(event, api_markets)),
     slugs_to_remove |->
        IF all_closed(event, api_markets) /\ event.markets # <<>>
        THEN <<event.slug>> ELSE <<>>]

closed_join(a, b) ==
    [alerts |-> a.alerts \o b.alerts,
     slugs_to_remove |-> a.slugs_to_remove \o b.slugs_to_remove]

closed_of_slug(event, new_data, k) ==
    IF k = 0 THEN [alerts |-> <<>>, slugs_to_remove |-> <<>>]
    ELSE closed_of_event(event, new_data[k].data.markets)

RECURSIVE detect_closed_markets(_, _)
detect_closed_markets(evs, new_data) ==
    IF evs = <<>> THEN [alerts |-> <<>>, slugs_to_remove |-> <<>>]
    ELSE closed_join(closed_of_slug(Head(evs), new_data,
                                    raw_index(new_data, Head(evs).slug)),
                     detect_closed_markets(Tail(evs), new_data))

-----------------------------------------------------------------------------
(* main.py: run_poll_cycle up to the token poll *)

\* a cycle that lists the closed events and leaves them in the map
remove_events_none(evs, slugs) == evs

remove_events(evs, slugs) ==
    SelectSeq(evs, LAMBDA e : \A i \in 1..Len(slugs) : slugs[i] # e.slug)

\* `if alerts: await send_...(alerts, config)`: the alerter takes the batch
\* and never raises
send_if_any(log, kind, alerts) ==
    IF alerts = <<>> THEN log
    ELSE Append(log, [kind |-> kind, alerts |-> alerts])

closed_stage_of(evs, detected, log) ==
    [events          |-> remove_events(evs, detected.slugs_to_remove),
     closed_alerts   |-> detected.alerts,
     slugs_to_remove |-> detected.slugs_to_remove,
     sent            |-> send_if_any(log, "closed", detected.alerts)]

\* from `if "closed" in config.detectors:` to the removal of the events
closed_stage(evs, new_data, cfg, log) ==
    IF "closed" \in cfg.detectors
    THEN closed_stage_of(evs, detect_closed_markets(evs, new_data), log)
    ELSE [events |-> evs, closed_alerts |-> <<>>, slugs_to_remove |-> <<>>,
          sent |-> log]

warning_stage_of(evs, spks, warns, log) ==
    [events |-> evs, spikes |-> spks, warnings |-> warns,
     sent |-> send_if_any(log, "lvr", warns)]

\* from `if spikes:` on; log already holds the spike batch
warning_stage(evs, spks, cfg, log) ==
    warning_stage_of(evs, spks,
        IF spks # <<>> /\ "lvr" \in cfg.detectors
        THEN detect_all_liquidity_warnings(evs, spks, cfg.lvr_threshold)
        ELSE <<>>,
        log)

spike_stage_of(evs, spks, cfg, log) ==
    warning_stage(evs, spks, cfg, send_if_any(log, "spike", spks))

\* from `if "spike" in config.detectors:` on
spike_stage(evs, cfg, log) ==
    IF "spike" \in cfg.detectors
    THEN spike_stage_of(evs, detect_all_spikes(evs, cfg.spike_threshold), cfg, log)
    ELSE [events |-> evs, spikes |-> <<>>, warnings |-> <<>>, sent |-> log]

\* the spike detector run on the events as they were before the poll
poll_stage_before(evs, fetched, cfg, log) ==
    [spike_stage(evs, cfg, log) EXCEPT !.events = poll_all_events(evs, fetched)]

\* from `events = await poll_all_events(client, events)` on
poll_stage(evs, fetched, cfg, log) ==
    spike_stage(poll_all_events(evs, fetched), cfg, log)

tokens_of_markets(markets) ==
    [i \in 1..Len(markets) |-> Val(markets[i].clob_token_id)]

\* a variant that takes the token of every market, closed or not
RECURSIVE extract_clob_token_ids_all(_)
extract_clob_token_ids_all(evs) ==
    IF evs = <<>> THEN <<>>
    ELSE tokens_of_markets(SelectSeq(Head(evs).markets, LAMBDA m : m.clob_token_id # None))
         \o extract_clob_token_ids_all(Tail(evs))

RECURSIVE extract_clob_token_ids(_)
extract_clob_token_ids(evs) ==
    IF evs = <<>> THEN <<>>
    ELSE tokens_of_markets(
             SelectSeq(Head(evs).markets,
                       LAMBDA m : m.clob_token_id # None /\ ~m.is_closed))
         \o extract_clob_token_ids(Tail(evs))

-----------------------------------------------------------------------------
(* The event half of the poll cycle: two events, s1 with up to two markets *)
(* whose prices, volumes and closed flags move, s2 with one market that    *)
(* stays as it is.  The token poll that ends the cycle is left to           *)
(* SpecClob; the event half does not read the clock.                        *)

Q1(price, closed) ==
    [conditionId |-> "m1", question |-> "q1",
     outcomes |-> <<"Yes", "No">>, outcomePrices |-> <<price, 100 - price>>,
     clobTokenIds |-> <<"t1", "t2">>, closed |-> closed,
     volume24hr |-> Some(IF price = 50 THEN 90 ELSE 80),
     liquidityNum |-> Some(10)]

Q2(closed) ==
    [conditionId |-> "m2", question |-> "q2",
     outcomes |-> <<"Yes">>, outcomePrices |-> <<30>>,
     clobTokenIds |-> <<>>, closed |-> closed,
     volume24hr |-> Some(80), liquidityNum |-> None]

Q3 ==
    [conditionId |-> "m3", question |-> "q3",
     outcomes |-> <<"Yes">>, outcomePrices |-> <<50>>,
     clobTokenIds |-> <<"t3">>, closed |-> FALSE,
     volume24hr |-> Some(90), liquidityNum |-> Some(10)]

Q1Choices == {<<>>, <<Q1(50, FALSE)>>, <<Q1(60, FALSE)>>, <<Q1(60, TRUE)>>}
Q2Choices == {<<>>, <<Q2(FALSE)>>, <<Q2(TRUE)>>}

S1Responses ==
    {[slug |-> "s1", title |-> "E1", markets |-> a \o b] :
        a \in Q1Choices, b \in Q2Choices}

S2Response == [slug |-> "s2", title |-> "E2", markets |-> <<Q3>>]

\* what fetch_event_by_slug can give for a slug: None is a failed fetch
FetchChoices(slug) ==
    IF slug = "s1" THEN {None} \cup {Some(d) : d \in S1Responses}
    ELSE {Some(S2Response)}

FetchResults(evs) ==
    {f \in [1..Len(evs) -> {None, Some(S2Response)} \cup {Some(d) : d \in S1Responses}] :
        \A i \in 1..Len(evs) : f[i] \in FetchChoices(evs[i].slug)}

GammaConfigs ==
    {[detectors |-> d, spike_threshold |-> 20, lvr_threshold |-> 8,
      clob_token_ids |-> <<>>,
      cooldown_minutes |-> 0, escalation_threshold |-> R(1)] :
        d \in {{"closed", "spike", "lvr"}, {"spike", "lvr"}, {"closed", "lvr"}}}

\* main_async: the events dict after the first fetch of every valid slug
InitialEvents ==
    {<<parse_event_response(d), parse_event_response(S2Response)>> : d \in S1Responses}
    \cup {<<parse_event_response(S2Response)>>}

Init ==
    /\ events \in InitialEvents
    /\ prior = <<>>
    /\ raw_data = <<>>
    /\ polled = <<>>
    /\ closed_alerts = <<>>
    /\ slugs_to_remove = <<>>
    /\ spikes = <<>>
    /\ warnings = <<>>
    /\ sent = <<>>
    /\ clob_token_ids = <<>>
    /\ config \in GammaConfigs
    /\ now = 0
    /\ arg = None
    /\ ret = None
    /\ pc = "cycle"
    /\ WindowIdle /\ ClobIdle /\ MainIdle
    /\ entries = EmptyMap
    /\ removed = {}

GammaFrame == UNCHANGED <<arg, ret, now, config, windowVars, clobVars, mainVars>>

\* run_poll_cycle from its start to the removal of the closed events
FetchAndDetectClosed ==
    /\ pc = "cycle"
    /\ entries' = cleanup_stale(entries, config, now)
    /\ prior' = events
    /\ \E fetched \in FetchResults(events) :
         \E new_data \in {fetch_all_events_raw(events, fetched)} :
           \E out \in {closed_stage(events, new_data, config, sent)} :
              /\ raw_data' = new_data
              /\ events' = out.events
              /\ closed_alerts' = out.closed_alerts
              /\ slugs_to_remove' = out.slugs_to_remove
              /\ removed' = removed \cup {out.slugs_to_remove[i] :
                                              i \in 1..Len(out.slugs_to_remove)}
              /\ sent' = out.sent
    /\ pc' = "poll"
    /\ UNCHANGED <<polled, spikes, warnings, clob_token_ids>>
    /\ GammaFrame

\* run_poll_cycle from poll_all_events to the choice of the token ids
PollAndDetect ==
    /\ pc = "poll"
    /\ \E fetched \in FetchResults(events) :
         \E out \in {poll_stage(events, fetched, config, sent)} :
              /\ polled' = fetched
              /\ events' = out.events
              /\ spikes' = out.spikes
              /\ warnings' = out.warnings
              /\ sent' = out.sent
              /\ clob_token_ids' = IF config.clob_token_ids # <<>>
                                   THEN config.clob_token_ids
                                   ELSE extract_clob_token_ids(out.events)
    /\ pc' = "sleep"
    /\ UNCHANGED <<entries, prior, raw_data, closed_alerts, slugs_to_remove, removed>>
    /\ GammaFrame

\* the cycle returns and the loop sleeps; the locals of the cycle are gone
Sleep ==
    /\ pc = "sleep"
    /\ pc' = "cycle"
    /\ prior' = <<>>
    /\ raw_data' = <<>>
    /\ polled' = <<>>
    /\ closed_alerts' = <<>>
    /\ slugs_to_remove' = <<>>
    /\ spikes' = <<>>
    /\ warnings' = <<>>
    /\ sent' = <<>>
    /\ clob_token_ids' = <<>>
    /\ UNCHANGED <<events, entries, removed>>
    /\ GammaFrame

Next == FetchAndDetectClosed \/ PollAndDetect \/ Sleep

Spec == Init /\ [][Next]_vars

Slugs(evs) == {evs[i].slug : i \in 1..Len(evs)}

\* the markets the snapshot of this cycle lists for a slug, as a set of
\* sequences: empty when the fetch of the slug failed
SnapshotOf(slug) ==
    {raw_data[k].data.markets : k \in {i \in 1..Len(raw_data) : raw_data[i].slug = slug}}

\* the snapshot lists markets and reports every one of them closed
EveryMarketClosed(api_markets) ==
    /\ api_markets # <<>>
    /\ \A j \in 1..Len(api_markets) : api_markets[j].closed

SpikeKey(s) == <<s.event_name, s.market_question, s.outcome>>

\* C1: every liquidity warning of a cycle stands on a spike alert of the
\* same cycle with the same (event name, question, outcome); a cycle with
\* no spike has no warning; and the spikes of a cycle are those of the
\* prices this cycle's poll left, not of an earlier cycle.
C1_WarningNeedsSpike ==
    /\ \A w \in 1..Len(warnings) : \E s \in 1..Len(spikes) :
          /\ SpikeKey(spikes[s]) = SpikeKey(warnings[w])
          /\ spikes[s].price_before = warnings[w].price_before
          /\ spikes[s].price_after = warnings[w].price_after
    /\ spikes = <<>> => warnings = <<>>
    /\ \A s \in 1..Len(spikes) : \E i \in 1..Len(events) :
          \E j \in 1..Len(events[i].markets) :
             /\ events[i].name = spikes[s].event_name
             /\ events[i].markets[j].question = spikes[s].market_question
             /\ events[i].markets[j].outcome = spikes[s].outcome
             /\ events[i].markets[j].previous_price = Some(spikes[s].price_before)
             /\ events[i].markets[j].current_price = Some(spikes[s].price_after)

\* C1 witness: the cycle raised a warning for the "No" side of q1, whose
\* price rose from 0.40 to 0.50 with an LVR of 9.
C1_Witness ==
    /\ pc = "sleep"
    /\ Len(warnings) = 1
    /\ warnings[1].outcome = "No"
    /\ warnings[1].price_before = 40
    /\ warnings[1].lvr = R(9)
    /\ Len(spikes) = 1

\* C3 as stated: every event tracked when the cycle started whose snapshot
\* has closed = true for every market is absent from events once the cycle
\* has completed.
C3_AllClosedRemoved ==
    pc = "sleep" =>
        \A i \in 1..Len(prior) : \A api_markets \in SnapshotOf(prior[i].slug) :
            EveryMarketClosed(api_markets) => prior[i].slug \notin Slugs(events)

\* C3 amended: with the closed detector enabled, every event tracked when
\* the cycle started that has at least one tracked market and whose snapshot
\* (the one fetched for the closed detector) has closed = true for every
\* market is absent from events once the cycle has completed.
C3_AllClosedRemovedWhenEnabled ==
    (pc = "sleep" /\ "closed" \in config.detectors) =>
        \A i \in 1..Len(prior) : \A api_markets \in SnapshotOf(prior[i].slug) :
            (prior[i].markets # <<>> /\ EveryMarketClosed(api_markets))
            => prior[i].slug \notin Slugs(events)

\* C3 witness: s1 was tracked with markets, its snapshot listed q1 and q2
\* both closed, and the cycle ended with s1 gone and s2 still tracked.
C3_Witness ==
    /\ pc = "sleep"
    /\ "closed" \in config.detectors
    /\ \E i \in 1..Len(prior) :
          /\ prior[i].slug = "s1"
          /\ prior[i].markets # <<>>
          /\ \E api_markets \in SnapshotOf("s1") :
                Len(api_markets) = 2 /\ EveryMarketClosed(api_markets)
    /\ Slugs(events) = {"s2"}

\* the snapshot reports closed = true for the question of a tracked market
ReportedClosed(slug, question) ==
    \E api_markets \in SnapshotOf(slug) : \E j \in 1..Len(api_markets) :
        api_markets[j].question = question /\ api_markets[j].closed

\* the tracked (event, market) entries that go from open to closed
Transitions ==
    {<<i, j>> \in (1..Len(prior)) \X (1..3) :
        /\ j <= Len(prior[i].markets)
        /\ ~prior[i].markets[j].is_closed
        /\ ReportedClosed(prior[i].slug, prior[i].markets[j].question)}

AlertsOfMarket(slug, market) ==
    {a \in 1..Len(closed_alerts) :
        /\ closed_alerts[a].event_slug = slug
        /\ closed_alerts[a].market_question = market.question
        /\ closed_alerts[a].outcome = market.outcome}

\* C4: detect_closed_markets raises one alert for every tracked (question,
\* outcome) entry that was open and that the snapshot reports closed, and
\* no other alert: none for an entry already closed, none for one still
\* open.
C4_AlertOnTransition ==
    (pc \in {"poll", "sleep"} /\ "closed" \in config.detectors) =>
        /\ \A i \in 1..Len(prior) : \A j \in 1..Len(prior[i].markets) :
              Cardinality(AlertsOfMarket(prior[i].slug, prior[i].markets[j]))
                  = IF <<i, j>> \in Transitions THEN 1 ELSE 0
        /\ Len(closed_alerts) = Cardinality(Transitions)

\* C4 witness: both sides of q1 went from open to closed and were alerted,
\* while q2, closed before and closed in the snapshot, was not.
C4_Witness ==
    /\ pc = "poll"
    /\ "closed" \in config.detectors
    /\ Len(closed_alerts) = 2
    /\ closed_alerts[1].outcome = "Yes"
    /\ closed_alerts[2].outcome = "No"
    /\ \E i \in 1..Len(prior) : \E j \in 1..Len(prior[i].markets) :
          /\ prior[i].markets[j].is_closed
          /\ ReportedClosed(prior[i].slug, prior[i].markets[j].question)

SentKinds == [i \in 1..Len(sent) |-> sent[i].kind]

KindRank(kind) == IF kind = "closed" THEN 1 ELSE IF kind = "spike" THEN 2 ELSE 3

\* C10: in one cycle the closed detector works on the events as they were
\* before the snapshot was applied, the spike and liquidity detectors work
\* on the events the poll has updated, and the spike batch is handed to the
\* alerter before the liquidity batch (and the closed batch before both).
C10_DetectorOrder ==
    /\ (pc \in {"poll", "sleep"} /\ "closed" \in config.detectors) =>
          /\ closed_alerts = detect_closed_markets(prior, raw_data).alerts
          /\ slugs_to_remove = detect_closed_markets(prior, raw_data).slugs_to_remove
    /\ (pc = "sleep" /\ "spike" \in config.detectors) =>
          /\ spikes = detect_all_spikes(events, config.spike_threshold)
          /\ warnings = IF spikes # <<>> /\ "lvr" \in config.detectors
                        THEN detect_all_liquidity_warnings(events, spikes,
                                                           config.lvr_threshold)
                        ELSE <<>>
    /\ \A i \in 1..Len(sent) : \A j \in 1..Len(sent) :
          i < j => KindRank(sent[i].kind) < KindRank(sent[j].kind)
    /\ \A j \in 1..Len(sent) :
          sent[j].kind = "lvr" => \E i \in 1..(j - 1) :
              sent[i].kind = "spike" /\ sent[i].alerts = spikes

\* C10 witness: one cycle handed over a closed batch, a spike batch and a
\* liquidity batch, in that order.
C10_Witness ==
    /\ pc = "sleep"
    /\ SentKinds = <<"closed", "spike", "lvr">>
    /\ prior # events

-----------------------------------------------------------------------------
(* main_async: the polling loop, the handler of SIGINT and SIGTERM and the  *)
(* inter-cycle sleep.  A poll cycle is one step that starts and one that    *)
(* ends, by returning or by raising out of one of its stages; the sleep is  *)
(* poll_interval slices of one second.                                      *)

PollInterval == 2
MaxCycles == 3

MainConfigs == {[poll_interval |-> n] : n \in {1, PollInterval}}

\* a cycle returns, or raises an Exception out of one of its stages
CycleOutcomes == {"returned", "fetch", "parse", "detection", "notification"}

\* a loop whose cycle is not wrapped: the exception leaves main_async
poll_cycle_unguarded(result, logged) ==
    [pc |-> IF result = "returned" THEN "for" ELSE "raised", errors |-> logged]

\* try: events = await run_poll_cycle(...)  except Exception: logger.error
try_poll_cycle(result, logged) ==
    [pc |-> "for", errors |-> IF result = "returned" THEN logged ELSE logged + 1]

\* a sleep that does not look at the flag
sleep_step_unchecked(flag, done, interval) ==
    IF done >= interval THEN "while" ELSE "asleep"

\* for _ in range(poll_interval): if shutdown_requested: break; sleep(1)
sleep_step(flag, done, interval) ==
    IF done >= interval THEN "while"
    ELSE IF flag THEN "while"
    ELSE "asleep"

InitMain ==
    /\ pc = "while"
    /\ config \in MainConfigs
    /\ shutdown_requested = FALSE
    /\ slice = 0
    /\ cycles = 0
    /\ errors = 0
    /\ last_outcome = None
    /\ signal_at = None
    /\ now = 0
    /\ clob_token_ids = <<>>
    /\ FnIdle /\ WindowIdle /\ CoolIdle /\ ClobIdle /\ GammaIdle

MainFrame ==
    UNCHANGED <<arg, ret, now, config, clob_token_ids, windowVars, coolVars,
                clobVars, gammaVars>>

\* a signal arrives: the handler sets the flag, whatever the loop is doing
handle_shutdown ==
    /\ pc # "done"
    /\ shutdown_requested' = TRUE
    /\ signal_at' = IF signal_at = None THEN Some(pc) ELSE signal_at
    /\ UNCHANGED <<pc, slice, cycles, errors, last_outcome>>
    /\ MainFrame

\* while not shutdown_requested: the flag is clear and a cycle starts
StartCycle ==
    /\ pc = "while"
    /\ ~shutdown_requested
    /\ cycles < MaxCycles
    /\ pc' = "cycle"
    /\ cycles' = cycles + 1
    /\ UNCHANGED <<shutdown_requested, slice, errors, last_outcome, signal_at>>
    /\ MainFrame

\* while not shutdown_requested: the flag is set, main_async returns 0
ReturnMain ==
    /\ pc = "while"
    /\ shutdown_requested
    /\ pc' = "done"
    /\ ret' = Some(0)
    /\ UNCHANGED <<shutdown_requested, slice, cycles, errors, last_outcome, signal_at>>
    /\ UNCHANGED <<arg, now, config, clob_token_ids, windowVars, coolVars,
                   clobVars, gammaVars>>

\* the cycle in flight ends; the for loop of the sleep starts at slice 0
EndCycle ==
    /\ pc = "cycle"
    /\ \E result \in CycleOutcomes :
         \E out \in {try_poll_cycle(result, errors)} :
            /\ pc' = out.pc
            /\ errors' = out.errors
            /\ last_outcome' = Some(result)
    /\ slice' = 0
    /\ UNCHANGED <<shutdown_requested, cycles, signal_at>>
    /\ MainFrame

\* the head of one iteration of the sleep loop
SleepTest ==
    /\ pc = "for"
    /\ pc' = sleep_step(shutdown_requested, slice, config.poll_interval)
    /\ UNCHANGED <<shutdown_requested, slice, cycles, errors, last_outcome, signal_at>>
    /\ MainFrame

\* await asyncio.sleep(1)
SleepOneSecond ==
    /\ pc = "asleep"
    /\ slice' = slice + 1
    /\ pc' = "for"
    /\ UNCHANGED <<shutdown_requested, cycles, errors, last_outcome, signal_at>>
    /\ MainFrame

MainStep == StartCycle \/ ReturnMain \/ EndCycle \/ SleepTest \/ SleepOneSecond

NextMain == MainStep \/ handle_shutdown

\* the event loop runs main_async whenever it can go on; signals are free
SpecMain == InitMain /\ [][NextMain]_vars /\ WF_vars(MainStep)

Raised == last_outcome # None /\ last_outcome # Some("returned")

\* C11: a poll cycle that raises does not end the loop: the error is logged
\* once, the loop goes on to the inter-cycle sleep, no cycle starts before
\* the sleep is over, and unless shutdown is requested the next cycle starts.
C11_ErrorStaysInLoop ==
    /\ [][/\ (pc = "cycle" /\ pc' # "cycle") =>
                /\ pc' = "for" /\ slice' = 0
                /\ errors' = IF last_outcome' = Some("returned")
                             THEN errors ELSE errors + 1
          /\ (pc # "cycle" /\ pc' = "cycle" /\ cycles > 0) =>
                slice = config.poll_interval]_vars
    /\ \A n \in 1..(MaxCycles - 1) :
          (pc = "for" /\ Raised /\ cycles = n)
              ~> (shutdown_requested \/ (pc = "cycle" /\ cycles = n + 1))

\* a cycle has raised, the loop has slept and the next cycle is in flight
C11_Witness ==
    /\ pc = "cycle"
    /\ cycles >= 2
    /\ Raised
    /\ errors >= 1
    /\ slice = config.poll_interval
    /\ ~shutdown_requested

\* C12: once the flag is set no cycle starts, the cycle in flight ends, the
\* sleep goes on to no further slice once its loop head is reached, and
\* main_async returns.
C12_ShutdownStops ==
    /\ [][shutdown_requested =>
            /\ cycles' = cycles
            /\ (pc = "cycle" => pc' \in {"cycle", "for"})
            /\ (pc = "for" => pc' \in {"for", "while"})
            /\ (pc = "asleep" => pc' \in {"asleep", "for"})
            /\ (pc = "while" => pc' \in {"while", "done"})]_vars
    /\ (pc = "cycle") ~> (pc = "for")
    /\ shutdown_requested ~> (pc = "done")

\* main_async has returned after a signal that arrived in mid-cycle
C12_Witness ==
    /\ pc = "done"
    /\ signal_at = Some("cycle")
    /\ last_outcome # None
    /\ cycles >= 1

-----------------------------------------------------------------------------
(* update_prices on its own: one tracked event, parsed from a first        *)
(* snapshot, then snapshots applied to it one after the other, each either *)
(* a new one or the one applied last.  A snapshot lists one or two markets *)
(* of two outcomes; condition ids and questions vary independently, the    *)
(* No price may be missing, and no two markets share a condition id.       *)

MaxApplies == 2

ApiMarket(id, question, prices) ==
    [conditionId |-> id, question |-> question,
     outcomes |-> <<"Yes", "No">>, outcomePrices |-> prices,
     clobTokenIds |-> <<>>, closed |-> FALSE,
     volume24hr |-> Some(80), liquidityNum |-> Some(10)]

ApiMarkets ==
    {ApiMarket(id, q, p) : id \in {"m1", "m2"}, q \in {"q1", "q2"},
                           p \in {<<50, 50>>, <<60>>}}

UpdateSnapshots ==
    {[slug |-> "s1", title |-> "E1", markets |-> ms] :
        ms \in {<<>>} \cup {<<a>> : a \in ApiMarkets}
               \cup {<<a, b>> : a \in {x \in ApiMarkets : x.conditionId = "m1"},
                                b \in {x \in ApiMarkets : x.conditionId = "m2"}}}

UpdateConfigs == {[spike_threshold |-> t] : t \in {5, 20}}

InitUpdate ==
    /\ events \in {<<parse_event_response(d)>> : d \in UpdateSnapshots}
    /\ prior = <<>>
    /\ arg = None
    /\ ret = None
    /\ config \in UpdateConfigs
    /\ pc = "update"
    /\ now = 0
    /\ clob_token_ids = <<>>
    /\ raw_data = <<>> /\ polled = <<>> /\ closed_alerts = <<>>
    /\ slugs_to_remove = <<>> /\ spikes = <<>> /\ warnings = <<>>
    /\ sent = <<>> /\ removed = {}
    /\ WindowIdle /\ CoolIdle /\ ClobIdle /\ MainIdle

UpdateFrame ==
    UNCHANGED <<now, config, pc, clob_token_ids, raw_data, polled, closed_alerts,
                slugs_to_remove, spikes, warnings, sent, removed, windowVars,
                coolVars, clobVars, mainVars>>

Applied == IF ret = None THEN 0 ELSE Val(ret).applied

\* update_prices(event, new_data) with a snapshot of its own
UApply ==
    /\ Applied < MaxApplies
    /\ \E new_data \in UpdateSnapshots :
          /\ arg' = Some(new_data)
          /\ events' = <<update_prices(events[1], new_data)>>
    /\ prior' = events
    /\ ret' = Some([op |-> "update_prices", repeated |-> FALSE,
                    applied |-> Applied + 1])
    /\ UpdateFrame

\* update_prices(event, new_data) with the snapshot applied last
UApplyAgain ==
    /\ arg # None
    /\ Applied < MaxApplies + 1
    /\ ~Val(ret).repeated
    /\ events' = <<update_prices(events[1], Val(arg))>>
    /\ prior' = events
    /\ ret' = Some([op |-> "update_prices", repeated |-> TRUE,
                    applied |-> Applied + 1])
    /\ UNCHANGED arg
    /\ UpdateFrame

NextUpdate == UApply \/ UApplyAgain

SpecUpdate == InitUpdate /\ [][NextUpdate]_vars

UpdateCalled == pc = "update" /\ ret # None

\* the prices a prior market list holds for a market found by a key
PriorByQuestion(m) ==
    {prior[1].markets[i].current_price : i \in
        {j \in 1..Len(prior[1].markets) :
            /\ prior[1].markets[j].question = m.question
            /\ prior[1].markets[j].outcome = m.outcome}}

PriorById(m) ==
    {prior[1].markets[i].current_price : i \in
        {j \in 1..Len(prior[1].markets) :
            /\ prior[1].markets[j].id = m.id
            /\ prior[1].markets[j].outcome = m.outcome}}

SnapshotMarkets == parse_event_response(Val(arg)).markets

Reconciled(m, i, matches) ==
    /\ m.current_price = SnapshotMarkets[i].current_price
    /\ m.question = SnapshotMarkets[i].question
    /\ m.outcome = SnapshotMarkets[i].outcome
    /\ IF matches = {} THEN m.previous_price = None
       ELSE m.previous_price \in matches

-----------------------------------------------------------------------------
(* run_poll_cycle as a whole: one event with one market of one outcome,    *)
(* whose price and closed flag move and whose token is polled while the    *)
(* market is tracked and open; every subset of the five detectors that     *)
(* leaves out at most one of them.                                         *)

MaxCycleTime == 3

CycleMarket(price, closed) ==
    [conditionId |-> "m1", question |-> "q1",
     outcomes |-> <<"Yes">>, outcomePrices |-> <<price>>,
     clobTokenIds |-> <<"t1">>, closed |-> closed,
     volume24hr |-> Some(90), liquidityNum |-> Some(10)]

CycleResponses ==
    {[slug |-> "s1", title |-> "E1", markets |-> <<m>>] :
        m \in {CycleMarket(50, FALSE), CycleMarket(60, FALSE), CycleMarket(60, TRUE)}}

CycleFetches(evs) == [1..Len(evs) -> {Some(d) : d \in CycleResponses}]

CycleReadings ==
    {<<Some(1), Some(1)>>, <<Some(2), Some(2)>>, <<Some(4), Some(4)>>}

CycleResults(ids) ==
    {[k \in 1..Len(ids) |->
        [market_id |-> ids[k], price |-> f[k][1], volume |-> f[k][2]]] :
     f \in [1..Len(ids) -> CycleReadings]}

AllDetectors == {"spike", "lvr", "zscore", "mad", "closed"}

CycleConfigs ==
    {[detectors |-> d, spike_threshold |-> 20, lvr_threshold |-> 8,
      clob_token_ids |-> <<>>, zscore_threshold |-> 1, mad_multiplier |-> 1,
      cooldown_minutes |-> 0, escalation_threshold |-> R(1)] :
        d \in {AllDetectors} \cup {AllDetectors \ {k} : k \in AllDetectors}}

InitCycle ==
    /\ events \in {<<parse_event_response(d)>> : d \in CycleResponses}
    /\ prior = <<>>
    /\ raw_data = <<>>
    /\ polled = <<>>
    /\ closed_alerts = <<>>
    /\ slugs_to_remove = <<>>
    /\ spikes = <<>>
    /\ warnings = <<>>
    /\ sent = <<>>
    /\ removed = {}
    /\ market_stats = <<>>
    /\ entries = EmptyMap
    /\ clob_data = <<>>
    /\ zscore_alerts = <<>>
    /\ mad_alerts = <<>>
    /\ suppressed = <<>>
    /\ clob_token_ids = <<>>
    /\ config \in CycleConfigs
    /\ now = 0
    /\ arg = None
    /\ ret = None
    /\ pc = "cycle"
    /\ WindowIdle /\ MainIdle

CycleFrame == UNCHANGED <<arg, ret, config, windowVars, mainVars>>

\* run_poll_cycle from its start to the removal of the closed events
CycleStart ==
    /\ pc = "cycle"
    /\ entries' = cleanup_stale(entries, config, now)
    /\ prior' = events
    /\ \E fetched \in CycleFetches(events) :
         \E new_data \in {fetch_all_events_raw(events, fetched)} :
           \E out \in {closed_stage(events, new_data, config, sent)} :
              /\ raw_data' = new_data
              /\ events' = out.events
              /\ closed_alerts' = out.closed_alerts
              /\ slugs_to_remove' = out.slugs_to_remove
              /\ removed' = removed \cup {out.slugs_to_remove[i] :
                                              i \in 1..Len(out.slugs_to_remove)}
              /\ sent' = out.sent
    /\ pc' = "poll"
    /\ UNCHANGED <<now, polled, spikes, warnings, clob_token_ids, clobVars>>
    /\ CycleFrame

\* run_poll_cycle from poll_all_events to `if clob_token_ids:`
CyclePoll ==
    /\ pc = "poll"
    /\ \E fetched \in CycleFetches(events) :
         \E out \in {poll_stage(events, fetched, config, sent)} :
            \E ids \in {IF config.clob_token_ids # <<>>
                        THEN config.clob_token_ids
                        ELSE extract_clob_token_ids(out.events)} :
              /\ polled' = fetched
              /\ events' = out.events
              /\ spikes' = out.spikes
              /\ warnings' = out.warnings
              /\ sent' = out.sent
              /\ clob_token_ids' = ids
              /\ pc' = IF ids # <<>> THEN "clob" ELSE "sleep"
    /\ UNCHANGED <<now, entries, prior, raw_data, closed_alerts, slugs_to_remove,
                   removed, clobVars>>
    /\ CycleFrame

\* run_clob_poll_cycle, with the two batches it hands to the alerter
CycleClob ==
    /\ pc = "clob"
    /\ \E data \in CycleResults(clob_token_ids) :
        \E out \in {run_clob_poll_cycle(market_stats, entries, data, config, now)} :
              /\ clob_data' = data
              /\ market_stats' = out.ms
              /\ entries' = out.entries
              /\ zscore_alerts' = out.zscore_alerts
              /\ mad_alerts' = out.mad_alerts
              /\ suppressed' = out.suppressed
              /\ sent' = send_if_any(send_if_any(sent, "zscore", out.zscore_alerts),
                                     "mad", out.mad_alerts)
    /\ pc' = "sleep"
    /\ UNCHANGED <<now, clob_token_ids, events, prior, raw_data, polled,
                   closed_alerts, slugs_to_remove, spikes, warnings, removed>>
    /\ CycleFrame

\* the cycle returns and the loop sleeps; the locals of the cycle are gone
CycleSleep ==
    /\ pc = "sleep"
    /\ now < MaxCycleTime
    /\ now' = now + 1
    /\ pc' = "cycle"
    /\ prior' = <<>>
    /\ raw_data' = <<>>
    /\ polled' = <<>>
    /\ closed_alerts' = <<>>
    /\ slugs_to_remove' = <<>>
    /\ spikes' = <<>>
    /\ warnings' = <<>>
    /\ sent' = <<>>
    /\ clob_token_ids' = <<>>
    /\ clob_data' = <<>>
    /\ zscore_alerts' = <<>>
    /\ mad_alerts' = <<>>
    /\ suppressed' = <<>>
    /\ UNCHANGED <<events, entries, market_stats, removed>>
    /\ CycleFrame

NextCycle == CycleStart \/ CyclePoll \/ CycleClob \/ CycleSleep

SpecCycle == InitCycle /\ [][NextCycle]_vars

\* the newest observation of a window is the value read at `clock`
NewestIs(obs, value, clock) ==
    /\ obs # <<>>
    /\ obs[Len(obs)] = Observation(clock, value)

WindowsUpdated(stats, item, clock) ==
    /\ NewestIs(stats.volume_1h, Val(item.volume), clock)
    /\ NewestIs(stats.volume_4h, Val(item.volume), clock)
    /\ NewestIs(stats.price_1h, Val(item.price), clock)
    /\ NewestIs(stats.price_4h, Val(item.price), clock)

\* C15: a cycle hands the alerter no batch of a kind that is not in
\* config.detectors and raises no alert of it; no liquidity warning without
\* the spike detector; and whatever is disabled, the events are those the
\* poll has updated and every token read has its reading in its windows.
C15_DisabledDetectorSilent ==
    /\ \A i \in 1..Len(sent) : sent[i].kind \in config.detectors
    /\ "spike" \notin config.detectors => spikes = <<>> /\ warnings = <<>>
    /\ "lvr" \notin config.detectors => warnings = <<>>
    /\ "closed" \notin config.detectors => closed_alerts = <<>>
    /\ "zscore" \notin config.detectors => zscore_alerts = <<>>
    /\ "mad" \notin config.detectors => mad_alerts = <<>>
    /\ pc \in {"clob", "sleep"} =>
          events = poll_all_events(remove_events(prior, slugs_to_remove), polled)
    /\ (pc = "sleep" /\ clob_data # <<>>) =>
          \A k \in 1..Len(clob_data) :
              (clob_data[k].price # None /\ clob_data[k].volume # None) =>
                 /\ IndexOf(market_stats, clob_data[k].market_id) # 0
                 /\ WindowsUpdated(
                        market_stats[IndexOf(market_stats, clob_data[k].market_id)],
                        clob_data[k], now)

\* a cycle with the z-score detector disabled has read a volume on which
\* the detector would have raised an alert; the windows hold the reading
C15_Witness ==
    /\ pc = "sleep"
    /\ "zscore" \notin config.detectors
    /\ clob_data # <<>>
    /\ zscore_alerts = <<>>
    /\ Len(market_stats) > 0
    /\ NewestIs(market_stats[1].volume_1h, Val(clob_data[1].volume), now)
    /\ detect_all_zscore_alerts(market_stats, config.zscore_threshold, entries,
                                config, now).alerts # <<>>

\* the title the feed gives the event of a slug
TitleOf(slug) == IF slug = "s1" THEN "E1" ELSE "E2"

RemovedEarlier == {s \in removed : \A i \in 1..Len(slugs_to_remove) : slugs_to_remove[i] # s}

\* C16: a slug that run_poll_cycle has deleted from events is in events in
\* no later state; in every later cycle it is not among the slugs fetched,
\* no snapshot of it is applied, and no closed, spike or liquidity alert
\* names its event.
C16_RemovedStaysOut ==
    /\ \A s \in removed : s \notin Slugs(events)
    /\ \A s \in RemovedEarlier :
          /\ s \notin Slugs(prior)
          /\ \A i \in 1..Len(raw_data) : raw_data[i].slug # s
          /\ \A i \in 1..Len(polled) : polled[i] # None => Val(polled[i]).slug # s
          /\ \A i \in 1..Len(closed_alerts) : closed_alerts[i].event_slug # s
          /\ \A i \in 1..Len(spikes) : spikes[i].event_name # TitleOf(s)
          /\ \A i \in 1..Len(warnings) : warnings[i].event_name # TitleOf(s)

\* s1 was removed in an earlier cycle; the cycle that has just finished
\* fetched and polled the event that is left
C16_Witness ==
    /\ pc = "sleep"
    /\ "s1" \in RemovedEarlier
    /\ raw_data # <<>>
    /\ polled # <<>>
    /\ Slugs(events) = {"s2"}

\* C17: a tracked market whose is_closed is true keeps is_closed true in
\* every later state in which it is tracked, whatever the snapshots report.
C17_ClosedStaysClosed ==
    [][\A i \in 1..Len(events) : \A j \in 1..Len(events[i].markets) :
          events[i].markets[j].is_closed =>
             \A k \in 1..Len(events') : \A l \in 1..Len(events'[k].markets) :
                (/\ events'[k].slug = events[i].slug
                 /\ events'[k].markets[l].question = events[i].markets[j].question
                 /\ events'[k].markets[l].outcome = events[i].markets[j].outcome)
                => events'[k].markets[l].is_closed]_vars

-----------------------------------------------------------------------------
(* poller.py, detector.py: the fields of a market of an event response as  *)
(* they arrive.  A JSON value is a list, a number, null or a string; a     *)
(* string is kept as what json.loads and float make of its text (None for  *)
(* a text they reject).  A call either returns a value or raises.          *)

JList(items) == [t |-> "list", v |-> items]
JNum(n)      == [t |-> "num", v |-> n]
JNull        == [t |-> "null"]
JBool(b)     == [t |-> "bool", v |-> b]
JStr(loads, as_float) == [t |-> "str", json |-> loads, float |-> as_float]

Ok(v)      == [ok |-> TRUE, v |-> v]
Raise(exc) == [ok |-> FALSE, exc |-> exc]

\* "0.5" and the like: a JSON number as text, and a float as text
NumText(n) == JStr(Some(JNum(n)), Some(n))
\* text that is neither JSON nor a float
BadText == JStr(None, None)
\* the JSON text of a value that is not a number
JsonText(value) == JStr(Some(value), None)

\* _parse_json_field: what the caller gets, a list only for the two shapes
\* the function expects
_parse_json_field(value) ==
    IF value.t = "str"
    THEN (IF value.json = None THEN JList(<<>>) ELSE Val(value.json))
    ELSE IF value.t = "list" THEN value
    ELSE JList(<<>>)

\* len(x)
py_len(x) == IF x.t = "list" THEN Ok(Len(x.v)) ELSE Raise("TypeError")

\* float(x)
py_float(x) ==
    IF x.t = "str" THEN (IF x.float = None THEN Raise("ValueError") ELSE Ok(Val(x.float)))
    ELSE IF x.t = "num" THEN Ok(x.v)
    ELSE Raise("TypeError")

\* bool(x)
py_truthy(x) ==
    IF x.t = "list" THEN x.v # <<>>
    ELSE IF x.t = "num" THEN x.v # 0
    ELSE IF x.t = "null" THEN FALSE
    ELSE IF x.t = "bool" THEN x.v
    ELSE TRUE

\* try: float(field) except (ValueError, TypeError): pass  -- volume, liquidity
parse_float_field(field) ==
    IF field.t = "null" THEN None
    ELSE IF py_float(field).ok THEN Some(py_float(field).v)
    ELSE None

\* price of outcome i: `if i < len(prices): try: float(prices[i]) except ...`
parse_price_at(prices, i, n) ==
    IF ~n.ok THEN n
    ELSE IF i > n.v THEN Ok(None)
    ELSE IF py_float(prices.v[i]).ok THEN Ok(Some(py_float(prices.v[i]).v))
    ELSE Ok(None)

\* token of outcome i: `if i < len(clob_token_ids): str(ids[i]) if ids[i] ...`
parse_token_at(ids, i, n) ==
    IF ~n.ok THEN n
    ELSE IF i > n.v THEN Ok(None)
    ELSE IF ids.v[i] # "" THEN Ok(Some(ids.v[i]))
    ELSE Ok(None)

\* one turn of `for i, outcome in enumerate(outcomes)`
parse_outcome_raw(market_data, outcomes, prices, ids, i, price, token) ==
    IF ~price.ok THEN price
    ELSE IF ~token.ok THEN token
    ELSE Ok([id |-> market_data.conditionId, question |-> market_data.question,
             outcome |-> outcomes.v[i], current_price |-> price.v,
             previous_price |-> None, is_closed |-> market_data.closed,
             volume_24h |-> parse_float_field(market_data.volume24hr),
             liquidity |-> parse_float_field(market_data.liquidityNum),
             lvr |-> None, clob_token_id |-> token.v])

parse_outcomes_raw(market_data, outcomes, prices, ids) ==
    [i \in 1..Len(outcomes.v) |->
        parse_outcome_raw(market_data, outcomes, prices, ids, i,
                          parse_price_at(prices, i, py_len(prices)),
                          parse_token_at(ids, i, py_len(ids)))]

\* the markets built so far, or the first exception of the loop
collect(results) ==
    IF \E i \in 1..Len(results) : ~results[i].ok
    THEN results[CHOOSE i \in 1..Len(results) :
                    ~results[i].ok /\ \A j \in 1..(i - 1) : results[j].ok]
    ELSE Ok([i \in 1..Len(results) |-> results[i].v])

\* parse_event_response for one market of the response
parse_market_fields(market_data, outcomes, prices, ids) ==
    IF outcomes.t # "list" THEN Raise("TypeError")
    ELSE collect(parse_outcomes_raw(market_data, outcomes, prices, ids))

parse_market_raw(market_data) ==
    parse_market_fields(market_data,
                        _parse_json_field(market_data.outcomes),
                        _parse_json_field(market_data.outcomePrices),
                        _parse_json_field(market_data.clobTokenIds))

\* detect_closed_markets: float(prices[idx]) inside
\* `except (json.JSONDecodeError, ValueError, IndexError)`
final_price_float(market, price) ==
    IF price.ok THEN Ok(Some(price.v))
    ELSE IF price.exc = "ValueError" THEN Ok(market.current_price)
    ELSE price

\* a variant that falls back to the current price when the list is too short
final_price_in_fallback(market, prices, idx, n) ==
    IF ~n.ok THEN n
    ELSE IF idx > n.v THEN Ok(market.current_price)
    ELSE final_price_float(market, py_float(prices.v[idx]))

final_price_in(market, prices, idx, n) ==
    IF ~n.ok THEN n
    ELSE IF idx > n.v THEN Ok(None)
    ELSE final_price_float(market, py_float(prices.v[idx]))

\* detect_closed_markets from `final_price = None` to the alert
final_price_raw(market, api_market) ==
    IF ~py_truthy(api_market.outcomePrices) THEN Ok(None)
    ELSE IF api_market.outcomePrices.t = "str"
    THEN (IF api_market.outcomePrices.json = None THEN Ok(market.current_price)
          ELSE final_price_in(market, Val(api_market.outcomePrices.json),
                              IF is_yes(market.outcome) THEN 1 ELSE 2,
                              py_len(Val(api_market.outcomePrices.json))))
    ELSE final_price_in(market, api_market.outcomePrices,
                        IF is_yes(market.outcome) THEN 1 ELSE 2,
                        py_len(api_market.outcomePrices))

\* the closed detector on one tracked market and the response's market of
\* its question: the alert's final price, None when there is no alert
closed_alert_raw(market, api_market) ==
    IF py_truthy(api_market.closed) /\ ~market.is_closed
    THEN final_price_raw(market, api_market)
    ELSE Ok(None)

-----------------------------------------------------------------------------
(* The two parsers on their own: one market of a response, each field      *)
(* well formed or malformed in one of the ways JSON allows.                *)

RawOutcomes ==
    {JList(<<"Yes", "No">>), JsonText(JList(<<"Yes", "No">>)),
     BadText, NumText(5), JNum(5), JNull}

RawPrices ==
    {JList(<<NumText(60), NumText(40)>>),
     JsonText(JList(<<NumText(60), NumText(40)>>)),
     JList(<<NumText(60)>>), JList(<<BadText, NumText(40)>>),
     JList(<<JNull, NumText(40)>>),
     BadText, NumText(5), JNum(5), JNull}

RawTokens == {JList(<<"t1", "t2">>), JsonText(JList(<<"t1", "t2">>)), BadText, NumText(5)}

RawNumbers == {JNull, JNum(80), NumText(80), BadText, JList(<<>>)}

RawClosed == {JBool(TRUE), JBool(FALSE), JsonText(JNull)}

RawMarkets ==
    {[conditionId |-> "m1", question |-> "q1", outcomes |-> o, outcomePrices |-> p,
      clobTokenIds |-> k, volume24hr |-> n, liquidityNum |-> JNum(10), closed |-> c] :
        o \in RawOutcomes, p \in RawPrices, k \in RawTokens, n \in RawNumbers,
        c \in RawClosed}

\* the market the closed detector has in its state
TrackedYes == MonitoredMarket("m1", "q1", "Yes", Some(50), None, FALSE,
                              None, None, None, None)

InitParse ==
    /\ arg \in {Some(m) : m \in RawMarkets}
    /\ ret = None
    /\ pc = "parse"
    /\ now = 0
    /\ config = <<>>
    /\ clob_token_ids = <<>>
    /\ WindowIdle /\ CoolIdle /\ ClobIdle /\ GammaIdle /\ MainIdle

ParseFrame ==
    UNCHANGED <<arg, now, config, pc, clob_token_ids, windowVars, coolVars,
                clobVars, gammaVars, mainVars>>

CallParseEventResponse ==
    /\ pc = "parse"
    /\ ret = None
    /\ ret' = Some([op |-> "parse_event_response", out |-> parse_market_raw(Val(arg))])
    /\ ParseFrame

CallDetectClosed ==
    /\ pc = "parse"
    /\ ret = None
    /\ ret' = Some([op  |-> "detect_closed_markets",
                    out |-> closed_alert_raw(TrackedYes, Val(arg))])
    /\ ParseFrame

NextParse == CallParseEventResponse \/ CallDetectClosed

SpecParse == InitParse /\ [][NextParse]_vars

\* the field arrived in one of the two shapes the feed documents
WellFormedList(field) ==
    \/ field.t = "list"
    \/ field.t = "str" /\ field.json # None /\ Val(field.json).t = "list"

\* C21: whatever is malformed or wrongly typed in the fields of a market,
\* parse_event_response and detect_closed_markets return; a price that
\* cannot be read is absent, and so are the markets of a field of outcomes
\* that cannot be read.
C21_MalformedNeverRaises ==
    (pc = "parse" /\ ret # None) =>
        /\ Val(ret).out.ok
        /\ (Val(ret).op = "parse_event_response"
               /\ ~WellFormedList(Val(arg).outcomes)) => Val(ret).out.v = <<>>
        /\ (Val(ret).op = "parse_event_response"
               /\ ~WellFormedList(Val(arg).outcomePrices)) =>
              \A i \in 1..Len(Val(ret).out.v) : Val(ret).out.v[i].current_price = None

-----------------------------------------------------------------------------
(* main_async from its first statement: the configuration is loaded and    *)
(* validated, the configured slugs are validated against the upstream, the *)
(* events are fetched a first time, and the polling loop is entered.       *)

MinPollInterval == 10

\* the fields of Configuration; cooldown_minutes and escalation_threshold
\* are the two that main_async reads to build the cooldown manager
Configuration(slugs, poll_interval, spike_threshold, bot_token, chat_id, lvr_threshold) ==
    [slugs |-> slugs, poll_interval |-> poll_interval,
     spike_threshold |-> spike_threshold, telegram_bot_token |-> bot_token,
     telegram_chat_id |-> chat_id, lvr_threshold |-> lvr_threshold,
     clob_token_ids |-> <<>>, zscore_threshold |-> R(3), mad_multiplier |-> R(3),
     detectors |-> {"spike", "lvr", "zscore", "mad", "closed"},
     cooldown_minutes |-> 0, escalation_threshold |-> R(1)]

\* validate_config: the list of errors, empty for a valid configuration
validate_config(cfg) ==
    (IF cfg.slugs = <<>> THEN <<"slugs">>
     ELSE SelectSeq([i \in 1..Len(cfg.slugs) |->
                        IF cfg.slugs[i] = "" THEN "slugs[i]" ELSE ""],
                    LAMBDA x : x # ""))
    \o (IF cfg.poll_interval < MinPollInterval THEN <<"poll_interval">> ELSE <<>>)
    \o (IF RatLt(cfg.spike_threshold, Rat(1, 10)) \/ RatLt(R(100), cfg.spike_threshold)
        THEN <<"spike_threshold">> ELSE <<>>)
    \o (IF RatLt(cfg.lvr_threshold, Rat(1, 10)) \/ RatLt(R(100), cfg.lvr_threshold)
        THEN <<"lvr_threshold">> ELSE <<>>)
    \o (IF cfg.telegram_bot_token = "" THEN <<"telegram.bot_token">> ELSE <<>>)
    \o (IF cfg.telegram_chat_id = "" THEN <<"telegram.chat_id">> ELSE <<>>)

\* Configuration(...) followed by validate_config(config); return config
validated(cfg) ==
    IF validate_config(cfg) = <<>> THEN Ok(cfg) ELSE Raise("ConfigurationError")

\* load_config: config.yaml when it exists, the environment otherwise; both
\* give the same fields, and an empty file is an error of its own
load_config(source) ==
    IF source.file = "empty" THEN Raise("ConfigurationError")
    ELSE validated(Configuration(source.slugs, source.poll_interval,
                                 source.spike_threshold, source.bot_token,
                                 source.chat_id, source.lvr_threshold))

\* validate_slugs: the configured slugs the upstream has an event for
validate_slugs(slugs, live) == SelectSeq(slugs, LAMBDA slug : slug \in live)

\* a startup that goes on with no slug to monitor
startup_exit_never(valid_slugs) == "init"

\* if not valid_slugs: return 1
startup_exit(valid_slugs) == IF valid_slugs = <<>> THEN "done" ELSE "init"

\* the response of the upstream for a slug it knows
StartupResponse(slug) ==
    IF slug = "s1" THEN [slug |-> "s1", title |-> "E1", markets |-> <<Q1(50, FALSE)>>]
    ELSE S2Response

ConfigSources ==
    {[file |-> f, slugs |-> s, poll_interval |-> p, spike_threshold |-> R(t),
      bot_token |-> b, chat_id |-> "chat", lvr_threshold |-> R(8)] :
        f \in {"yaml", "env"}, s \in {<<>>, <<"s1">>, <<"s1", "s2">>},
        p \in {MinPollInterval - 1, MinPollInterval}, t \in {5, 200},
        b \in {"", "token"}}
    \cup {[file |-> "empty", slugs |-> <<>>, poll_interval |-> MinPollInterval,
           spike_threshold |-> R(5), bot_token |-> "token", chat_id |-> "chat",
           lvr_threshold |-> R(8)]}

InitStartup ==
    /\ pc = "load"
    /\ arg \in {Some([source |-> c, live |-> l]) :
                   c \in ConfigSources, l \in SUBSET {"s1", "s2"}}
    /\ ret = None
    /\ config = <<>>
    /\ now = 0
    /\ clob_token_ids = <<>>
    /\ WindowIdle /\ CoolIdle /\ ClobIdle /\ GammaIdle /\ MainIdle

\* try: config = load_config(config_path) except ConfigurationError: return 1
LoadConfig ==
    /\ pc = "load"
    /\ \E out \in {load_config(Val(arg).source)} :
          IF out.ok
          THEN pc' = "validate" /\ config' = out.v /\ ret' = ret
          ELSE pc' = "done" /\ config' = config /\ ret' = Some(1)
    /\ UNCHANGED <<arg, now, clob_token_ids, windowVars, coolVars, clobVars,
                   gammaVars, mainVars>>

\* valid_slugs = await validate_slugs(config); if not valid_slugs: return 1
ValidateSlugs ==
    /\ pc = "validate"
    /\ pc' = startup_exit(validate_slugs(config.slugs, Val(arg).live))
    /\ ret' = IF pc' = "done" THEN Some(1) ELSE ret
    /\ UNCHANGED <<arg, now, config, clob_token_ids, windowVars, coolVars,
                   clobVars, gammaVars, mainVars>>

\* the first fetch of every valid slug (one that fails leaves the slug out),
\* the statistics dict and the cooldown manager; the loop is next
InitialiseEvents ==
    /\ pc = "init"
    /\ \E got \in SUBSET Val(arg).live :
          events' = [i \in 1..Len(SelectSeq(validate_slugs(config.slugs, Val(arg).live),
                                           LAMBDA slug : slug \in got)) |->
                       parse_event_response(StartupResponse(
                           SelectSeq(validate_slugs(config.slugs, Val(arg).live),
                                     LAMBDA slug : slug \in got)[i]))]
    /\ pc' = "while"
    /\ UNCHANGED <<arg, ret, now, config, clob_token_ids, windowVars, coolVars,
                   clobVars, prior, raw_data, polled, closed_alerts,
                   slugs_to_remove, spikes, warnings, sent, removed, mainVars>>

StartupStep == LoadConfig \/ ValidateSlugs \/ InitialiseEvents

NextStartup == StartupStep \/ MainStep \/ handle_shutdown

\* the event loop runs main_async whenever it can go on; signals are free
SpecStartup == InitStartup /\ [][NextStartup]_vars /\ WF_vars(StartupStep \/ MainStep)

InLoop == pc \in {"while", "cycle", "for", "asleep"}

\* the configuration main_async was started with does not load
ConfigFails ==
    \/ Val(arg).source.file = "empty"
    \/ Val(arg).source.slugs = <<>>
    \/ Val(arg).source.poll_interval < MinPollInterval
    \/ RatLt(R(100), Val(arg).source.spike_threshold)
    \/ Val(arg).source.bot_token = ""

\* no configured slug has an event upstream
NoValidSlug ==
    \A i \in 1..Len(Val(arg).source.slugs) : Val(arg).source.slugs[i] \notin Val(arg).live

-----------------------------------------------------------------------------
(* The spike and liquidity stages on their own: one event of two markets   *)
(* as update_prices leaves them, lvr computed from volume and liquidity.   *)

\* a market after update_prices: previous price 50, lvr = volume / liquidity
LvrMarket(outcome, cur, vol, liq) ==
    MonitoredMarket("m1", "q1", outcome, Some(cur), Some(50), FALSE,
                    Some(vol), liq, calculate_lvr(Some(vol), liq), None)

\* volumes over a liquidity of 2: lvr 1, 3/2, 2, 8, 19/2, 10, 12
LvrVolumes == {2, 3, 4, 16, 19, 20, 24}

LvrEvents ==
    {<<MonitoredEvent("s1", "E1",
                      <<LvrMarket("Yes", c, v, l), LvrMarket("No", 100 - c, w, Some(2))>>)>> :
        c \in {50, 60}, v \in LvrVolumes, l \in {None, Some(0), Some(2)}, w \in {16, 20}}

LvrConfigs ==
    {[spike_threshold |-> 20, lvr_threshold |-> t, detectors |-> {"spike", "lvr"}] :
        t \in {1, 2, 8, 10}}

InitLvr ==
    /\ events \in LvrEvents
    /\ config \in LvrConfigs
    /\ pc = "spike"
    /\ prior = <<>>
    /\ raw_data = <<>>
    /\ polled = <<>>
    /\ closed_alerts = <<>>
    /\ slugs_to_remove = <<>>
    /\ spikes = <<>>
    /\ warnings = <<>>
    /\ sent = <<>>
    /\ removed = {}
    /\ now = 0
    /\ clob_token_ids = <<>>
    /\ FnIdle /\ WindowIdle /\ CoolIdle /\ ClobIdle /\ MainIdle

\* run_poll_cycle: spikes = detect_all_spikes(...); the warnings of the
\* spikes; both batches handed to the alerter
DetectSpikesAndWarnings ==
    /\ pc = "spike"
    /\ \E out \in {spike_stage(events, config, sent)} :
          /\ spikes' = out.spikes
          /\ warnings' = out.warnings
          /\ sent' = out.sent
    /\ pc' = "returned"
    /\ UNCHANGED <<arg, ret, now, config, clob_token_ids, windowVars, coolVars,
                   clobVars, events, prior, raw_data, polled, closed_alerts,
                   slugs_to_remove, removed, mainVars>>

NextLvr == DetectSpikesAndWarnings

SpecLvr == InitLvr /\ [][NextLvr]_vars

\* the market of the first event a spike is about
SpikeMarket(spike) ==
    CHOOSE m \in {events[1].markets[i] : i \in 1..Len(events[1].markets)} :
        m.question = spike.market_question /\ m.outcome = spike.outcome

WarningsFor(spike) ==
    {i \in 1..Len(warnings) :
        /\ warnings[i].event_name = spike.event_name
        /\ warnings[i].market_question = spike.market_question
        /\ warnings[i].outcome = spike.outcome}

HealthLabel(lvr) ==
    IF lvr.n * 1 < 2 * lvr.d THEN "Healthy"
    ELSE IF lvr.n < 10 * lvr.d THEN "Elevated"
    ELSE "High Risk"

\* C23: a spike of the cycle has a liquidity warning iff the lvr of its
\* market is present and strictly above lvr_threshold; the warning carries
\* the spike's prices, change and direction, the market's lvr, and the
\* label Healthy below 2, Elevated from 2 to below 10, High Risk from 10.
C23_WarningIffLvrAbove ==
    pc = "returned" =>
        \A k \in 1..Len(spikes) :
            /\ WarningsFor(spikes[k]) # {}
                  <=> /\ SpikeMarket(spikes[k]).lvr # None
                      /\ Val(SpikeMarket(spikes[k]).lvr).n >
                            config.lvr_threshold * Val(SpikeMarket(spikes[k]).lvr).d
            /\ \A i \in WarningsFor(spikes[k]) :
                  /\ warnings[i].price_before = spikes[k].price_before
                  /\ warnings[i].price_after = spikes[k].price_after
                  /\ warnings[i].change_percent = spikes[k].change_percent
                  /\ warnings[i].direction = spikes[k].direction
                  /\ warnings[i].lvr = Val(SpikeMarket(spikes[k]).lvr)
                  /\ warnings[i].health_status = HealthLabel(warnings[i].lvr)

\* both markets spiked; the one whose lvr equals the threshold has no
\* warning, the other is warned about as High Risk
C23_Witness ==
    /\ pc = "returned"
    /\ Len(spikes) = 2
    /\ events[1].markets[1].lvr = Some(R(config.lvr_threshold))
    /\ Len(warnings) = 1
    /\ warnings[1].outcome = "No"
    /\ warnings[1].health_status = "High Risk"

-----------------------------------------------------------------------------
(* The cooldown gate of detect_all_zscore_alerts on its own: candidates    *)
(* for one key arrive with chosen scores while the clock moves, and each   *)
(* goes through should_alert and, when it fires, record_alert.             *)

MaxGateTime == 4
MaxCandidates == 4

GateKey == _make_key("t1", "volume", "1h")
GateScores == {R(0), R(1), Rat(3, 2), R(2)}
GateConfigs ==
    {[cooldown_minutes |-> c, escalation_threshold |-> R(1)] : c \in {0, 3}}

\* the candidate detect_zscore_alert hands to the gate
Candidate(score, clock) == [zscore |-> score, detected_at |-> clock]

InitGate ==
    /\ entries = EmptyMap
    /\ zscore_alerts = <<>>
    /\ suppressed = <<>>
    /\ market_stats = <<>>
    /\ clob_data = <<>>
    /\ mad_alerts = <<>>
    /\ config \in GateConfigs
    /\ now = 0
    /\ arg = None
    /\ ret = None
    /\ pc = "gate"
    /\ clob_token_ids = <<>>
    /\ WindowIdle /\ GammaIdle /\ MainIdle

\* the candidates since the last alert that fired, that alert first
Trail == IF ret = None THEN <<>> ELSE Val(ret).trail

\* one turn of the loop of detect_all_zscore_alerts from `if alert:` on
GateCandidate ==
    /\ pc = "gate"
    /\ Len(zscore_alerts) + Len(suppressed) < MaxCandidates
    /\ \E score \in GateScores :
        \E out \in {zscore_turn([alerts |-> zscore_alerts, entries |-> entries,
                                 ms |-> <<>>, suppressed |-> suppressed],
                                <<>>, GateKey, Some(Candidate(score, now)),
                                config, now)} :
          /\ entries' = out.entries
          /\ zscore_alerts' = out.alerts
          /\ suppressed' = out.suppressed
          /\ ret' = Some([score  |-> score,
                          at     |-> now,
                          fired  |-> out.alerts # zscore_alerts,
                          before |-> Trail,
                          trail  |-> IF out.alerts # zscore_alerts
                                     THEN <<Candidate(score, now)>>
                                     ELSE Append(Trail, Candidate(score, now))])
    /\ UNCHANGED <<arg, now, config, pc, clob_token_ids, market_stats, clob_data,
                   mad_alerts, windowVars, gammaVars, mainVars>>

\* the next cycle comes poll_interval later
GateTick ==
    /\ pc = "gate"
    /\ now < MaxGateTime
    /\ now' = now + 1
    /\ UNCHANGED <<arg, ret, config, pc, clob_token_ids, coolVars, clobVars,
                   windowVars, gammaVars, mainVars>>

NextGate == GateCandidate \/ GateTick

SpecGate == InitGate /\ [][NextGate]_vars

\* the last call was made with cooldown active, inside the window of the
\* last alert that fired
InsideCooldown ==
    /\ ret # None
    /\ config.cooldown_minutes > 0
    /\ Val(ret).before # <<>>
    /\ Val(ret).at - Val(ret).before[1].detected_at < config.cooldown_minutes

\* every score of the sequence is above the one before it, by less than
\* escalation_threshold
SlowRise(seq) ==
    \A i \in 1..(Len(seq) - 1) :
        /\ RatLt(seq[i].zscore, seq[i + 1].zscore)
        /\ RatLt(RatSub(seq[i + 1].zscore, seq[i].zscore), config.escalation_threshold)

\* C24 as stated: inside the cooldown window of an alert recorded at s0, a
\* candidate that ends a slow rise of the scores does not fire, however far
\* above s0 the rise has come.
C24_SlowRiseNeverFires ==
    (InsideCooldown
        /\ SlowRise(Append(Val(ret).before, Candidate(Val(ret).score, Val(ret).at))))
        => ~Val(ret).fired

\* C24, amended: inside the cooldown window of the alert recorded at s0 a
\* candidate fires iff its score is at least s0 + escalation_threshold; the
\* candidates turned down in between leave the recorded score and time as
\* they were.
C24_EscalationFromRecorded ==
    InsideCooldown =>
        /\ Val(ret).fired <=>
              RatLe(config.escalation_threshold,
                    RatSub(Val(ret).score, Val(ret).before[1].zscore))
        /\ ~Val(ret).fired =>
              /\ entries[GateKey].last_zscore = Val(ret).before[1].zscore
              /\ entries[GateKey].last_alert_time = Val(ret).before[1].detected_at

\* an alert at 1, a candidate at 3/2 turned down, and a candidate at 2,
\* half a point above the last one, that fires inside the window
C24_Witness ==
    /\ InsideCooldown
    /\ Len(Val(ret).before) = 2
    /\ Val(ret).before[1].zscore = R(1)
    /\ Val(ret).before[2].zscore = Rat(3, 2)
    /\ Val(ret).score = R(2)
    /\ Val(ret).fired

-----------------------------------------------------------------------------
(* poll_all_events on its own, with the time stamp of the events: two      *)
(* tracked events, each fetch of a cycle giving a snapshot or nothing.     *)

MaxPollTime == 2

\* parse_event_response: last_updated = datetime.now()
parse_event_response_at(data, clock) ==
    [last_updated |-> Some(clock)] @@ parse_event_response(data)

\* update_prices: event.last_updated = new_event.last_updated
update_prices_at(event, new_data, clock) ==
    [last_updated |-> Some(clock)] @@ update_prices(event, new_data)

\* a poll that stamps every tracked event, fetched or not
poll_all_events_touching(evs, fetched, clock) ==
    [i \in 1..Len(evs) |->
        IF fetched[i] = None THEN [evs[i] EXCEPT !.last_updated = Some(clock)]
        ELSE update_prices_at(evs[i], Val(fetched[i]), clock)]

\* for slug, event in events.items(): data = await fetch_event_by_slug(...);
\* if data is None: continue; events[slug] = update_prices(event, data)
poll_all_events_at(evs, fetched, clock) ==
    [i \in 1..Len(evs) |->
        IF fetched[i] = None THEN evs[i]
        ELSE update_prices_at(evs[i], Val(fetched[i]), clock)]

PollResponses(slug) ==
    IF slug = "s1"
    THEN {[slug |-> "s1", title |-> t, markets |-> a \o b] :
             t \in {"E1", "E1 (updated)"}, a \in Q1Choices, b \in {<<>>, <<Q2(FALSE)>>}}
    ELSE {S2Response}

PollFetches ==
    {<<a, b>> : a \in {None} \cup {Some(d) : d \in PollResponses("s1")},
                b \in {None} \cup {Some(d) : d \in PollResponses("s2")}}

InitPoll ==
    /\ events \in {<<parse_event_response_at(d, 0), parse_event_response_at(S2Response, 0)>> :
                      d \in {r \in PollResponses("s1") : r.title = "E1"}}
    /\ prior = <<>>
    /\ polled = <<>>
    /\ raw_data = <<>>
    /\ closed_alerts = <<>>
    /\ slugs_to_remove = <<>>
    /\ spikes = <<>>
    /\ warnings = <<>>
    /\ sent = <<>>
    /\ removed = {}
    /\ now = 0
    /\ pc = "poll"
    /\ config = <<>>
    /\ clob_token_ids = <<>>
    /\ FnIdle /\ WindowIdle /\ CoolIdle /\ ClobIdle /\ MainIdle

\* events = await poll_all_events(client, events)
PollAll ==
    /\ pc = "poll"
    /\ \E fetched \in PollFetches :
          /\ polled' = fetched
          /\ events' = poll_all_events_at(events, fetched, now)
    /\ prior' = events
    /\ pc' = "sleep"
    /\ UNCHANGED <<arg, ret, now, config, clob_token_ids, windowVars, coolVars,
                   clobVars, raw_data, closed_alerts, slugs_to_remove, spikes,
                   warnings, sent, removed, mainVars>>

\* the loop sleeps until the next cycle
PollSleep ==
    /\ pc = "sleep"
    /\ now < MaxPollTime
    /\ now' = now + 1
    /\ pc' = "poll"
    /\ prior' = <<>>
    /\ polled' = <<>>
    /\ UNCHANGED <<arg, ret, config, clob_token_ids, windowVars, coolVars,
                   clobVars, events, raw_data, closed_alerts, slugs_to_remove,
                   spikes, warnings, sent, removed, mainVars>>

NextPoll == PollAll \/ PollSleep

SpecPoll == InitPoll /\ [][NextPoll]_vars

\* the prices of the outcomes a snapshot lists, in its order
SnapshotPrices(data) ==
    [i \in 1..Len(parse_event_response(data).markets) |->
        parse_event_response(data).markets[i].current_price]

\* C25: an event whose fetch gave nothing is, after poll_all_events, what it
\* was before it - markets with their prices, closed flags and lvr, name and
\* last_updated - and every event whose fetch gave a snapshot has that
\* snapshot's name and prices and the time of this poll.
C25_UnfetchedUnchanged ==
    pc = "sleep" =>
        /\ Len(events) = Len(prior)
        /\ \A i \in 1..Len(events) :
              /\ polled[i] = None => events[i] = prior[i]
              /\ polled[i] # None =>
                    /\ events[i].slug = prior[i].slug
                    /\ events[i].name = Val(polled[i]).title
                    /\ events[i].last_updated = Some(now)
                    /\ [k \in 1..Len(events[i].markets) |->
                           events[i].markets[k].current_price]
                          = SnapshotPrices(Val(polled[i]))

\* the fetch of s1 gave nothing in a later cycle and s1 keeps its markets
\* and its older time stamp while s2 is updated
C25_Witness ==
    /\ pc = "sleep"
    /\ now = 2
    /\ polled[1] = None
    /\ polled[2] # None
    /\ events[1].last_updated = Some(1)
    /\ events[1].markets # <<>>
    /\ events[2].last_updated = Some(2)
    /\ events[2] # prior[2]

-----------------------------------------------------------------------------
(* The window update of run_clob_poll_cycle on its own: the readings of up *)
(* to two tokens are folded into market_stats once per cycle.              *)

MaxFoldTime == 4

FoldTokenLists == {<<"t1">>, <<"t2">>, <<"t1", "t2">>}

FoldReadings == {<<None, Some(1)>>, <<Some(1), None>>, <<Some(1), Some(2)>>}

FoldResults(ids) ==
    {[k \in 1..Len(ids) |->
        [market_id |-> ids[k], price |-> f[k][1], volume |-> f[k][2]]] :
     f \in [1..Len(ids) -> FoldReadings]}

InitFold ==
    /\ market_stats = <<>>
    /\ clob_data = <<>>
    /\ zscore_alerts = <<>>
    /\ mad_alerts = <<>>
    /\ suppressed = <<>>
    /\ entries = EmptyMap
    /\ clob_token_ids = <<>>
    /\ config = <<>>
    /\ now = 0
    /\ arg = None
    /\ ret = None
    /\ pc = "clob"
    /\ WindowIdle /\ GammaIdle /\ MainIdle

\* clob_data = await poll_clob_markets(...); timestamp = datetime.now();
\* for market_id, (price, volume) in clob_data.items(): ...
FoldSnapshot ==
    /\ pc = "clob"
    /\ \E ids \in FoldTokenLists :
        \E data \in FoldResults(ids) :
          /\ clob_token_ids' = ids
          /\ clob_data' = data
          /\ market_stats' = UpdateFold(market_stats, data, now)
    /\ ret' = Some([before |-> market_stats])
    /\ pc' = "sleep"
    /\ UNCHANGED <<arg, now, config, entries, zscore_alerts, mad_alerts,
                   suppressed, windowVars, gammaVars, mainVars>>

FoldSleep ==
    /\ pc = "sleep"
    /\ now < MaxFoldTime
    /\ now' = now + 1
    /\ pc' = "clob"
    /\ UNCHANGED <<arg, ret, config, clob_token_ids, coolVars, clobVars,
                   windowVars, gammaVars, mainVars>>

NextFold == FoldSnapshot \/ FoldSleep

SpecFold == InitFold /\ [][NextFold]_vars

\* the statistics of a token in a dict, as a set: empty when it has none
StatsOf(ms, market_id) == {ms[i] : i \in {j \in 1..Len(ms) : ms[j].market_id = market_id}}

\* a window after one more observation: what had not expired, then the new one
OneMore(obs, duration, value, clock) ==
    Append(SelectSeq(obs, LAMBDA o : ~Expired(o, duration, clock)),
           Observation(clock, value))

WindowsOneMore(old, new, item, clock) ==
    /\ new.volume_1h = OneMore(old.volume_1h, Dur1h, Val(item.volume), clock)
    /\ new.volume_4h = OneMore(old.volume_4h, Dur4h, Val(item.volume), clock)
    /\ new.price_1h = OneMore(old.price_1h, Dur1h, Val(item.price), clock)
    /\ new.price_4h = OneMore(old.price_4h, Dur4h, Val(item.price), clock)

\* C26: folding a snapshot gives every token with price and book size one
\* more observation in each of its four windows, on fresh statistics when
\* it had none; a token with a missing component, and a token the snapshot
\* does not name, keeps exactly what it had, statistics or none; and no
\* statistics leave market_stats.
C26_FoldAddsOnePerWindow ==
    (pc = "sleep" /\ ret # None) =>
        /\ \A k \in 1..Len(clob_data) :
              IF clob_data[k].price # None /\ clob_data[k].volume # None
              THEN \E new \in StatsOf(market_stats, clob_data[k].market_id) :
                     \E old \in StatsOf(Val(ret).before, clob_data[k].market_id)
                                \cup (IF StatsOf(Val(ret).before, clob_data[k].market_id) = {}
                                      THEN {MarketStatistics(clob_data[k].market_id)}
                                      ELSE {}) :
                        WindowsOneMore(old, new, clob_data[k], now)
              ELSE StatsOf(market_stats, clob_data[k].market_id)
                      = StatsOf(Val(ret).before, clob_data[k].market_id)
        /\ \A id \in {"t1", "t2"} :
              /\ (\A k \in 1..Len(clob_data) : clob_data[k].market_id # id) =>
                    StatsOf(market_stats, id) = StatsOf(Val(ret).before, id)
              /\ StatsOf(Val(ret).before, id) # {} => StatsOf(market_stats, id) # {}
              /\ Cardinality({i \in 1..Len(market_stats) : market_stats[i].market_id = id}) <= 1

\* one snapshot with a full reading of t1, whose oldest observation has
\* expired from the 1h window, and a reading of t2 without a price, t2
\* having no statistics before or after
C26_Witness ==
    /\ pc = "sleep"
    /\ ret # None
    /\ Len(clob_data) = 2
    /\ clob_data[1].price # None /\ clob_data[1].volume # None
    /\ clob_data[2].price = None
    /\ StatsOf(market_stats, "t2") = {}
    /\ \E st \in StatsOf(market_stats, "t1") :
          /\ Len(st.volume_4h) > Len(st.volume_1h)
          /\ Len(st.volume_1h) >= 2

-----------------------------------------------------------------------------
(* The two window detectors on their own: the statistics of one token      *)
(* after a series of readings, and one run of detect_all_zscore_alerts and *)
(* detect_all_mad_alerts over them.                                        *)

\* the readings of a series, folded into fresh statistics at their times
RECURSIVE stats_after(_, _, _)
stats_after(stats, series, times) ==
    IF series = <<>> THEN stats
    ELSE stats_after(update_market_statistics(stats, Head(series)[1], Head(series)[2],
                                              Head(times), Head(times)),
                     Tail(series), Tail(times))

\* volumes whose z-score is 0, 1 or above 1 in a window of four; 20000 is
\* two points above
DetectVolumes == {0, 10000, 12413}

\* the prices of four readings: ratios of 2, of 1, of 3/2, and a MAD of 0
DetectPrices == {<<0, 0, 2, 3>>, <<3, 0, 2, 0>>, <<0, 0, 4, 5>>, <<1, 1, 1, 1>>}

\* four readings in the last hour
SeriesOfFour ==
    {[i \in 1..4 |-> <<p[i], v[i]>>] :
        p \in DetectPrices, v \in [1..4 -> DetectVolumes] \cup {<<0, 0, 10000, 20000>>}}

\* five readings, the first of them more than an hour old
SeriesOfFive ==
    {[i \in 1..5 |-> <<p[i], v[i]>>] :
        p \in {<<1, 2, 3, 4, 100>>}, v \in {<<0, 0, 0, 10000, 12413>>,
                                           <<12413, 0, 0, 10000, 10000>>}}

\* three readings: no window is valid
SeriesOfThree == {<<<<0, 0>>, <<2, 10000>>, <<9, 12413>>>>}

DetectStats ==
    {stats_after(MarketStatistics("t1"), s, <<4, 4, 4, 4>>) : s \in SeriesOfFour}
    \cup {stats_after(MarketStatistics("t1"), s, <<0, 3, 3, 4, 4>>) : s \in SeriesOfFive}
    \cup {stats_after(MarketStatistics("t1"), s, <<3, 4, 4>>) : s \in SeriesOfThree}

DetectConfigs ==
    {[detectors |-> {"zscore", "mad"}, zscore_threshold |-> 1, mad_multiplier |-> m,
      cooldown_minutes |-> c, escalation_threshold |-> R(1)] :
        m \in {1, 2}, c \in {0, 3}}

\* the alerts recorded before this cycle
DetectEntries ==
    {EmptyMap,
     [k \in {_make_key("t1", "volume", "1h"), _make_key("t1", "price", "4h")} |->
        CooldownEntry(k, 3, R(1))]}

InitDetect ==
    /\ market_stats \in {<<st>> : st \in DetectStats}
    /\ entries \in DetectEntries
    /\ config \in DetectConfigs
    /\ now = 4
    /\ clob_data = <<>>
    /\ zscore_alerts = <<>>
    /\ mad_alerts = <<>>
    /\ suppressed = <<>>
    /\ clob_token_ids = <<"t1">>
    /\ arg = None
    /\ ret = None
    /\ pc = "detect"
    /\ WindowIdle /\ GammaIdle /\ MainIdle

\* run_clob_poll_cycle from `if "zscore" in config.detectors:` on
RunDetectors ==
    /\ pc = "detect"
    /\ \E out \in {clob_zscore_stage(market_stats, entries, config, now)} :
          /\ market_stats' = out.ms
          /\ entries' = out.entries
          /\ zscore_alerts' = out.zscore_alerts
          /\ mad_alerts' = out.mad_alerts
          /\ suppressed' = out.suppressed
    /\ ret' = Some([stats |-> market_stats[1], entries |-> entries])
    /\ pc' = "done"
    /\ UNCHANGED <<arg, now, config, clob_token_ids, clob_data, windowVars,
                   gammaVars, mainVars>>

NextDetect == RunDetectors

SpecDetect == InitDetect /\ [][NextDetect]_vars

\* the values a window of the statistics had to give when the detectors ran
ValuesThen(metric, window) ==
    values_of(SelectSeq(window_map(Val(ret).stats, metric, window),
                        LAMBDA o : ~Expired(o, WindowDuration(window), now)))

\* the window had min_observations observations
ValidThen(metric, window) ==
    Len(window_map(Val(ret).stats, metric, window)) >= MinObservations

AlertsOf(alerts, metric, window) ==
    {i \in 1..Len(alerts) : alerts[i].metric = metric /\ alerts[i].window = window}

SuppressedOf(metric, window) ==
    {i \in 1..Len(suppressed) : suppressed[i].key = _make_key("t1", metric, window)}

\* what should_alert says of a candidate, from the entries before the run
GateOpen(metric, window, score) ==
    \/ config.cooldown_minutes = 0
    \/ _make_key("t1", metric, window) \notin DOMAIN Val(ret).entries
    \/ now - Val(ret).entries[_make_key("t1", metric, window)].last_alert_time
          >= config.cooldown_minutes
    \/ RatLe(config.escalation_threshold,
             RatSub(score, Val(ret).entries[_make_key("t1", metric, window)].last_zscore))

\* the candidate of a window went through the gate or was turned down by it
Gated(alerts, metric, window, score) ==
    IF GateOpen(metric, window, score)
    THEN /\ Cardinality(AlertsOf(alerts, metric, window)) = 1
         /\ SuppressedOf(metric, window) = {}
         /\ entries[_make_key("t1", metric, window)]
               = CooldownEntry(_make_key("t1", metric, window), now, score)
    ELSE /\ AlertsOf(alerts, metric, window) = {}
         /\ Cardinality(SuppressedOf(metric, window)) = 1
         /\ \A i \in SuppressedOf(metric, window) : suppressed[i].score = score
         /\ entries[_make_key("t1", metric, window)]
               = Val(ret).entries[_make_key("t1", metric, window)]

NoCandidate(alerts, metric, window) ==
    /\ AlertsOf(alerts, metric, window) = {}
    /\ SuppressedOf(metric, window) = {}

ZOf(window) ==
    calculate_zscore_mad(ValuesThen("volume", window)[Len(ValuesThen("volume", window))],
                         ValuesThen("volume", window))

\* C27: the z-score detector reads the two volume windows only; a valid
\* window gives a candidate iff the z-score of its last value is defined
\* and |z| > zscore_threshold; the alert carries z with its sign and the
\* last value, and the candidate is gated under (token, "volume", window)
\* with z as score.
C27_ZScoreCandidates ==
    pc = "done" =>
        /\ \A i \in 1..Len(zscore_alerts) :
              zscore_alerts[i].metric = "volume" /\ zscore_alerts[i].market_id = "t1"
        /\ \A w \in {"1h", "4h"} :
              IF /\ ValidThen("volume", w)
                 /\ ValuesThen("volume", w) # <<>>
                 /\ ZOf(w) # None
                 /\ RatLt(R(config.zscore_threshold), RatAbs(Val(ZOf(w))))
              THEN /\ Gated(zscore_alerts, "volume", w, Val(ZOf(w)))
                   /\ \A i \in AlertsOf(zscore_alerts, "volume", w) :
                         /\ zscore_alerts[i].zscore = Val(ZOf(w))
                         /\ zscore_alerts[i].current_value
                               = ValuesThen("volume", w)[Len(ValuesThen("volume", w))]
              ELSE NoCandidate(zscore_alerts, "volume", w)

\* the last volume is below the median by more than the threshold: the
\* alert of the 1h window carries a negative z; the prices make no z alert
C27_Witness ==
    /\ pc = "done"
    /\ \E i \in AlertsOf(zscore_alerts, "volume", "1h") :
          RatLt(zscore_alerts[i].zscore, R(-1))
    /\ AlertsOf(zscore_alerts, "price", "1h") = {}
    /\ mad_alerts # <<>>


\* the last value, the median and the MAD of a price window, from its values
LastPrice(window) == ValuesThen("price", window)[Len(ValuesThen("price", window))]
MedianThen(window) == median_of(ValuesThen("price", window))
MadThen(window) == calculate_mad(ValuesThen("price", window))

\* |current - median| / mad
RatioThen(window) ==
    RatDiv(RatAbs(RatSub(LastPrice(window), MedianThen(window))), MadThen(window))

\* C28: the MAD detector reads the two price windows only; a valid window
\* whose MAD is above 0 gives a candidate iff |current - median| / mad is
\* strictly above mad_multiplier; the alert reports that ratio as its
\* multiplier (97 for the prices 1, 2, 3, 4, 100), and the candidate is
\* gated under (token, "price", window) with the ratio as score.
C28_MadCandidates ==
    pc = "done" =>
        /\ \A i \in 1..Len(mad_alerts) :
              mad_alerts[i].metric = "price" /\ mad_alerts[i].market_id = "t1"
        /\ \A w \in {"1h", "4h"} :
              IF /\ ValidThen("price", w)
                 /\ ValuesThen("price", w) # <<>>
                 /\ RatLt(R(0), MadThen(w))
                 /\ RatLt(R(config.mad_multiplier), RatioThen(w))
              THEN /\ Gated(mad_alerts, "price", w, RatioThen(w))
                   /\ \A i \in AlertsOf(mad_alerts, "price", w) :
                         /\ mad_alerts[i].multiplier = RatioThen(w)
                         /\ mad_alerts[i].current_value = LastPrice(w)
              ELSE NoCandidate(mad_alerts, "price", w)
        /\ \A w \in {"1h", "4h"} :
              ValuesThen("price", w) = <<R(1), R(2), R(3), R(4), R(100)>> =>
                 \/ \E i \in AlertsOf(mad_alerts, "price", w) :
                       mad_alerts[i].multiplier = R(97)
                 \/ \E i \in SuppressedOf("price", w) : suppressed[i].score = R(97)

\* the prices 1, 2, 3, 4, 100 are in the 4h window and its alert reports 97,
\* while the 1h window, which has lost the oldest price, reports another ratio
C28_Witness ==
    /\ pc = "done"
    /\ ValuesThen("price", "4h") = <<R(1), R(2), R(3), R(4), R(100)>>
    /\ \E i \in AlertsOf(mad_alerts, "price", "4h") : mad_alerts[i].multiplier = R(97)
    /\ \E i \in AlertsOf(mad_alerts, "price", "1h") : mad_alerts[i].multiplier # R(97)

-----------------------------------------------------------------------------
(* The four upstream fetches on their own: one call, one request per turn  *)
(* of the retry loop, the upstream free to answer each request as it likes. *)

MAX_RETRIES == 3
RETRY_DELAY == 1

FetchFunctions == {"fetch_event_by_slug", "fetch_price", "fetch_midpoint", "fetch_book"}

\* what a 200 carries: the expected object, an object without the field, an
\* object whose field is no number, JSON that is no object, and no JSON at all
FetchBodies == {"ok", "nofield", "badfield", "notdict", "notjson"}

HttpResponse(status_code, body) == [kind |-> "response", status_code |-> status_code, body |-> body]
HttpException(exc) == [kind |-> exc]

FetchAnswers ==
    {HttpResponse(200, b) : b \in FetchBodies}
        \cup {HttpResponse(s, "") : s \in {404, 429, 500, 503}}
        \cup {HttpException("TimeoutException"), HttpException("ConnectError")}

Pow2(n) == IF n = 0 THEN 1 ELSE IF n = 1 THEN 2 ELSE IF n = 2 THEN 4 ELSE 8

\* asyncio.sleep in the 429 branch
rate_limit_delay(fn, attempt) ==
    IF fn = "fetch_event_by_slug" THEN RETRY_DELAY * (attempt + 1)
    ELSE RETRY_DELAY * Pow2(attempt)

\* asyncio.sleep in the except branches
error_delay(attempt, max_retries) ==
    IF attempt < max_retries - 1 THEN <<RETRY_DELAY>> ELSE <<>>

Return(v) == [next |-> "return", out |-> Ok(v), delay |-> <<>>]
Throw(exc) == [next |-> "raise", out |-> Raise(exc), delay |-> <<>>]
Continue(delay) == [next |-> "continue", out |-> None, delay |-> delay]

\* response.json() and what each function does with the decoded value
read_body(fn, body) ==
    IF fn \in {"fetch_event_by_slug", "fetch_book"}
    THEN IF body = "notjson" THEN Throw("JSONDecodeError") ELSE Return(Some(body))
    ELSE CASE body = "notjson"  -> Return(None)
           [] body = "notdict"  -> Throw("AttributeError")
           [] body = "nofield"  -> Return(None)
           [] body = "badfield" -> Return(None)
           [] OTHER             -> Return(Some("float"))

\* a variant that goes round the loop again on a 404
fetch_attempt_retry_404(fn, attempt, max_retries, answer) ==
    CASE answer.kind # "response" -> Continue(error_delay(attempt, max_retries))
      [] answer.kind = "response" /\ answer.status_code = 429 ->
            Continue(<<rate_limit_delay(fn, attempt)>>)
      [] answer.kind = "response" /\ answer.status_code = 200 -> read_body(fn, answer.body)
      [] OTHER -> Continue(error_delay(attempt, max_retries))

\* one turn of `for attempt in range(max_retries)`
fetch_attempt(fn, attempt, max_retries, answer) ==
    CASE answer.kind # "response" -> Continue(error_delay(attempt, max_retries))
      [] answer.kind = "response" /\ answer.status_code = 404 -> Return(None)
      [] answer.kind = "response" /\ answer.status_code = 429 ->
            Continue(<<rate_limit_delay(fn, attempt)>>)
      [] answer.kind = "response" /\ answer.status_code = 200 -> read_body(fn, answer.body)
      [] OTHER -> Continue(error_delay(attempt, max_retries))

FetchCalls == {[fn |-> f, max_retries |-> n] : f \in FetchFunctions, n \in 0..MAX_RETRIES}

FetchRecord(attempt, requests, slept, out) == [attempt |-> attempt, requests |-> requests, slept |-> slept, out |-> out]

InitFetch ==
    /\ arg \in {Some(c) : c \in FetchCalls}
    /\ ret = FetchRecord(0, <<>>, <<>>, None)
    /\ pc = "request"
    /\ now = 0
    /\ config = <<>>
    /\ clob_token_ids = <<>>
    /\ WindowIdle /\ CoolIdle /\ ClobIdle /\ GammaIdle /\ MainIdle

FetchFrame ==
    UNCHANGED <<arg, now, config, clob_token_ids, windowVars, coolVars, clobVars,
                gammaVars, mainVars>>

\* one request and what the loop does with its answer
FetchAttempt ==
    /\ pc = "request"
    /\ ret.attempt < Val(arg).max_retries
    /\ \E answer \in FetchAnswers :
         \E step \in {fetch_attempt(Val(arg).fn, ret.attempt, Val(arg).max_retries, answer)} :
            /\ ret' = FetchRecord(ret.attempt + 1, Append(ret.requests, answer),
                                  ret.slept \o step.delay,
                                  IF step.next = "continue" THEN None ELSE Some(step.out))
            /\ pc' = IF step.next = "continue" THEN "request" ELSE "done"
    /\ FetchFrame

\* the lines after the loop
FetchGiveUp ==
    /\ pc = "request"
    /\ ret.attempt >= Val(arg).max_retries
    /\ ret' = [ret EXCEPT !.out = Some(Ok(None))]
    /\ pc' = "done"
    /\ FetchFrame

NextFetch == FetchAttempt \/ FetchGiveUp

SpecFetch == InitFetch /\ [][NextFetch]_vars /\ WF_vars(NextFetch)

Requests == ret.requests

Retried(answer) ==
    \/ answer.kind # "response"
    \/ answer.kind = "response" /\ answer.status_code \in {429, 500, 503}

NotFound(answer) == answer.kind = "response" /\ answer.status_code = 404

Successful(answer) == answer = HttpResponse(200, "ok")

ReturnedMissing == pc = "done" /\ ret.out = Some(Ok(None))

\* C29: every upstream fetch ends after at most max_retries requests: a 404
\* is the last request of its call (the only one when it comes first) and the
\* call returns a missing result, a successful response is the last request
\* and the call returns its value, every timeout, 429, 5xx and transport
\* error is followed by another request while attempts remain, and a call all
\* of whose max_retries requests failed that way returns a missing result
\* without raising.
C29_BoundedRetry ==
    /\ [](Len(Requests) <= Val(arg).max_retries /\ Val(arg).max_retries <= MAX_RETRIES)
    /\ [](\A i \in DOMAIN Requests :
            NotFound(Requests[i]) => i = Len(Requests) /\ ReturnedMissing)
    /\ [](\A i \in DOMAIN Requests :
            Successful(Requests[i]) =>
                /\ i = Len(Requests)
                /\ pc = "done"
                /\ ret.out \in {Some(Ok(Some("ok"))), Some(Ok(Some("float")))})
    /\ [](\A i \in DOMAIN Requests :
            Retried(Requests[i]) /\ i < Val(arg).max_retries /\ i = Len(Requests)
                => pc = "request")
    /\ [](pc = "done" /\ (\A i \in DOMAIN Requests : Retried(Requests[i]))
            => Len(Requests) = Val(arg).max_retries /\ ReturnedMissing)
    /\ <>(pc = "done")

C29_Witness ==
    /\ pc = "done"
    /\ Val(arg).max_retries = MAX_RETRIES
    /\ Len(Requests) = MAX_RETRIES
    /\ Requests[1] = HttpException("TimeoutException")
    /\ Requests[2] = HttpResponse(429, "")
    /\ Requests[3] = HttpResponse(503, "")
    /\ ret.out = Some(Ok(None))
    /\ ret.slept = <<1, 2>>

-----------------------------------------------------------------------------
(* The notification boundary on its own: the send_all_* calls of one cycle, *)
(* one POST per alert, Telegram free to answer each POST as it likes.       *)

\* what a 200 carries: {"ok": true}, {"ok": false, ...}, and no JSON at all
SendBodies == {"ok", "notok", "notjson"}

SendAnswers ==
    {HttpResponse(200, b) : b \in SendBodies}
        \cup {HttpResponse(s, "") : s \in {429, 400, 500}}
        \cup {HttpException("TimeoutException"), HttpException("ConnectError")}

\* a variant that takes every 200 for a delivery
send_telegram_alert_any_200(answer) ==
    CASE answer.kind # "response" -> Ok(FALSE)
      [] answer.kind = "response" /\ answer.status_code = 200 ->
            IF answer.body = "notjson" THEN Raise("JSONDecodeError") ELSE Ok(TRUE)
      [] OTHER -> Ok(FALSE)

\* send_telegram_alert, given the answer to its one client.post
send_telegram_alert(answer) ==
    CASE answer.kind # "response" -> Ok(FALSE)
      [] answer.kind = "response" /\ answer.status_code = 200 ->
            IF answer.body = "notjson" THEN Raise("JSONDecodeError")
            ELSE Ok(answer.body = "ok")
      [] OTHER -> Ok(FALSE)

ClosedBatches == {<<"c1">>, <<"c1", "c2">>}
SpikeBatches  == {<<"s1">>, <<"s1", "s2">>, <<"s1", "s2", "s3">>}

\* the send_all_* calls a cycle makes, in order; an empty batch is not sent
SendCalls ==
    {<<[fn |-> "send_all_alerts", alerts |-> s]>> : s \in SpikeBatches}
        \cup {<<[fn |-> "send_all_closed_event_alerts", alerts |-> c],
                [fn |-> "send_all_alerts", alerts |-> s]>> :
                    c \in ClosedBatches, s \in SpikeBatches}

SendRecord(call, i, sent_count, posts, counts) == [call |-> call, i |-> i, sent_count |-> sent_count, posts |-> posts, counts |-> counts]

InitSend ==
    /\ arg \in {Some(c) : c \in SendCalls}
    /\ ret = SendRecord(1, 0, 0, <<>>, <<>>)
    /\ pc = "send"
    /\ now = 0
    /\ config = <<>>
    /\ clob_token_ids = <<>>
    /\ WindowIdle /\ CoolIdle /\ ClobIdle /\ GammaIdle /\ MainIdle

SendFrame ==
    UNCHANGED <<arg, now, config, clob_token_ids, windowVars, coolVars, clobVars,
                gammaVars, mainVars>>

\* one turn of `for alert in alerts`: one send_telegram_alert call
SendAlert ==
    /\ pc = "send"
    /\ ret.i < Len(Val(arg)[ret.call].alerts)
    /\ \E answer \in SendAnswers :
         \E success \in {send_telegram_alert(answer)} :
            /\ ret' = [ret EXCEPT
                         !.i = @ + 1,
                         !.posts = Append(@, [alert  |-> Val(arg)[ret.call].alerts[ret.i + 1],
                                              answer |-> answer]),
                         !.sent_count = IF success.ok /\ success.v THEN @ + 1 ELSE @]
            /\ pc' = IF success.ok THEN "send" ELSE "raised"
    /\ SendFrame

\* `return sent_count`, and the cycle going on to its next send_all_* call
SendAllReturn ==
    /\ pc = "send"
    /\ ret.i >= Len(Val(arg)[ret.call].alerts)
    /\ ret' = [ret EXCEPT !.counts = Append(@, ret.sent_count),
                          !.call = @ + 1, !.i = 0, !.sent_count = 0]
    /\ pc' = IF ret.call < Len(Val(arg)) THEN "send" ELSE "done"
    /\ SendFrame

NextSend == SendAlert \/ SendAllReturn

SpecSend == InitSend /\ [][NextSend]_vars /\ WF_vars(NextSend)

Posts == ret.posts

Acknowledged(answer) == answer = HttpResponse(200, "ok")

\* the failures of a send: a 200 that does not acknowledge, a 429, another
\* status, a timeout, a request error
FailedSend(answer) ==
    \/ answer.kind # "response"
    \/ answer.kind = "response" /\ answer.status_code # 200
    \/ answer = HttpResponse(200, "notok")

RECURSIVE AlertsOfCalls(_)
AlertsOfCalls(calls) ==
    IF calls = <<>> THEN <<>> ELSE Head(calls).alerts \o AlertsOfCalls(Tail(calls))

RECURSIVE CountAcknowledged(_)
CountAcknowledged(posts) ==
    IF posts = <<>> THEN 0
    ELSE (IF Acknowledged(Head(posts).answer) THEN 1 ELSE 0) + CountAcknowledged(Tail(posts))

PostsOfCall(k) ==
    SelectSeq(Posts, LAMBDA p : \E j \in DOMAIN Val(arg)[k].alerts : Val(arg)[k].alerts[j] = p.alert)

OnlyListedAnswers == \A i \in DOMAIN Posts : Acknowledged(Posts[i].answer) \/ FailedSend(Posts[i].answer)

-----------------------------------------------------------------------------
(* The final price of a ClosedMarket alert on its own: one tracked market  *)
(* and the response's market of its question.                              *)

FinalOutcomes == {"Yes", "No", "yes", "Up"}

FinalCurrent == {Some(50), None}

FinalPrices ==
    RawPrices \cup {JList(<<>>), JsonText(JList(<<>>)),
                    JsonText(JList(<<NumText(60)>>)),
                    JList(<<NumText(60), BadText>>),
                    JList(<<JNum(60), JNum(40)>>)}

FinalTracked ==
    {MonitoredMarket("m1", "q1", o, c, None, k, None, None, None, None) :
        o \in FinalOutcomes, c \in FinalCurrent, k \in BOOLEAN}

FinalApiMarkets ==
    {[conditionId |-> "m1", question |-> "q1", outcomes |-> JList(<<"Yes", "No">>),
      outcomePrices |-> p, clobTokenIds |-> JList(<<"t1", "t2">>),
      volume24hr |-> JNum(80), liquidityNum |-> JNum(10), closed |-> c] :
        p \in FinalPrices, c \in {JBool(TRUE), JBool(FALSE)}}

\* the ClosedEventAlert of one tracked market: None when there is no
\* transition, the exception when the final price block raises
closed_event_alert_raw(market, api_market, final_price) ==
    IF ~(py_truthy(api_market.closed) /\ ~market.is_closed) THEN Ok(None)
    ELSE IF ~final_price.ok THEN final_price
    ELSE Ok(Some([market_question |-> market.question, outcome |-> market.outcome,
                  final_price |-> final_price.v]))

InitFinal ==
    /\ arg \in {Some([market |-> m, api_market |-> a]) :
                    m \in FinalTracked, a \in FinalApiMarkets}
    /\ ret = None
    /\ pc = "detect"
    /\ now = 0
    /\ config = <<>>
    /\ clob_token_ids = <<>>
    /\ WindowIdle /\ CoolIdle /\ ClobIdle /\ GammaIdle /\ MainIdle

\* detect_closed_markets on the one market
CallFinalPrice ==
    /\ pc = "detect"
    /\ ret' = Some(closed_event_alert_raw(Val(arg).market, Val(arg).api_market,
                        final_price_raw(Val(arg).market, Val(arg).api_market)))
    /\ pc' = "done"
    /\ UNCHANGED <<arg, now, config, clob_token_ids, windowVars, coolVars, clobVars,
                   gammaVars, mainVars>>

NextFinal == CallFinalPrice

SpecFinal == InitFinal /\ [][NextFinal]_vars

AlertEmitted == pc = "done" /\ Val(ret).ok /\ Val(ret).v # None

FinalPriceOfAlert == Val(Val(ret).v).final_price

\* the list the snapshot's outcome-prices stands for, None when it is
\* missing or stands for no list
PricesRead ==
    LET p == Val(arg).api_market.outcomePrices
    IN IF p.t = "list" THEN Some(p.v)
       ELSE IF p.t = "str" /\ p.json # None /\ Val(p.json).t = "list" THEN Some(Val(p.json).v)
       ELSE None

\* the number at position idx (from 1) of that list, None when the list is
\* missing or too short or the entry is no number
EntryRead(idx) ==
    IF PricesRead = None \/ idx > Len(Val(PricesRead)) THEN None
    ELSE IF py_float(Val(PricesRead)[idx]).ok THEN Some(py_float(Val(PricesRead)[idx]).v)
    ELSE None

TooShort(idx) == PricesRead # None /\ idx > Len(Val(PricesRead))

Unparsable(idx) ==
    \/ Val(arg).api_market.outcomePrices = BadText
    \/ PricesRead # None /\ idx <= Len(Val(PricesRead)) /\ EntryRead(idx) = None

\* C31 as stated: the final price of an alert is the entry at index 0 for
\* Yes and at index 1 for No, and the market's current price in every other
\* case (outcome-prices missing, empty, too short or unparsable).
C31_FallsBackToCurrent ==
    AlertEmitted =>
        LET outcome == Val(arg).market.outcome
            idx == IF outcome = "Yes" THEN 1 ELSE 2
        IN IF outcome \in {"Yes", "No"} /\ EntryRead(idx) # None
           THEN FinalPriceOfAlert = EntryRead(idx)
           ELSE FinalPriceOfAlert = Val(arg).market.current_price

\* C31, amended: the final price of an emitted alert is the entry at index 0
\* when the outcome is yes in any letter case and at index 1 for every other
\* outcome; it is the market's current price only when outcome-prices or
\* that entry is unparsable; and it is missing when outcome-prices is
\* missing, empty or too short.
C31_FinalPrice ==
    AlertEmitted =>
        LET idx == IF is_yes(Val(arg).market.outcome) THEN 1 ELSE 2
        IN /\ EntryRead(idx) # None => FinalPriceOfAlert = EntryRead(idx)
           /\ Unparsable(idx) => FinalPriceOfAlert = Val(arg).market.current_price
           /\ (PricesRead = None /\ ~Unparsable(idx)) \/ PricesRead = Some(<<>>) \/ TooShort(idx)
                => FinalPriceOfAlert = None
           /\ EntryRead(idx) # None \/ Unparsable(idx) \/ PricesRead = None \/ TooShort(idx)

C31_Witness ==
    /\ AlertEmitted
    /\ Val(arg).market.outcome = "No"
    /\ Val(arg).market.current_price = Some(50)
    /\ Val(arg).api_market.outcomePrices = JList(<<NumText(60)>>)
    /\ FinalPriceOfAlert = None

-----------------------------------------------------------------------------
(* Which tokens a cycle polls: two events, three markets with a token      *)
(* each (one market may have none), markets closing upstream, fetches that *)
(* may fail, with and without the clob_token_ids override.                 *)

MaxTokenTime == 1

TokenMarket(id, question, tokens, closed) ==
    [conditionId |-> id, question |-> question,
     outcomes |-> <<"Yes">>, outcomePrices |-> <<50>>,
     clobTokenIds |-> tokens, closed |-> closed,
     volume24hr |-> Some(90), liquidityNum |-> Some(10)]

TokenResponses(slug, second) ==
    IF slug = "s1"
    THEN {[slug |-> "s1", title |-> "E1",
           markets |-> <<TokenMarket("m1", "q1", <<"t1">>, c1),
                         TokenMarket("m2", "q2", second, c2)>>] : c1, c2 \in BOOLEAN}
    ELSE {[slug |-> "s2", title |-> "E2",
           markets |-> <<TokenMarket("m3", "q3", <<"t3">>, c3)>>] : c3 \in BOOLEAN}

SecondTokens == {<<"t2">>, <<>>}

\* the token list of the second market, as the first response gave it
SecondOf(evs) ==
    IF \E i \in 1..Len(evs) : evs[i].slug = "s1" /\ evs[i].markets[2].clob_token_id = None
    THEN <<>> ELSE <<"t2">>

TokenFetches(evs) ==
    {f \in [1..Len(evs) -> {None} \cup {Some(d) : d \in TokenResponses("s1", <<"t2">>)
                                             \cup TokenResponses("s1", <<>>)
                                             \cup TokenResponses("s2", <<>>)}] :
        \A i \in 1..Len(evs) :
            f[i] = None \/ Val(f[i]) \in TokenResponses(evs[i].slug, SecondOf(evs))}

TokenReadings == {<<Some(1), Some(1)>>, <<None, Some(1)>>}

TokenResults(ids) ==
    {[k \in 1..Len(ids) |->
        [market_id |-> ids[k], price |-> f[k][1], volume |-> f[k][2]]] :
     f \in [1..Len(ids) -> TokenReadings]}

TokenConfigs ==
    {[detectors |-> d, spike_threshold |-> 20, lvr_threshold |-> 8,
      clob_token_ids |-> o, zscore_threshold |-> 1, mad_multiplier |-> 1,
      cooldown_minutes |-> 0, escalation_threshold |-> R(1)] :
        d \in {AllDetectors, AllDetectors \ {"closed"}},
        o \in {<<>>, <<"t3", "t9">>}}

InitTokens ==
    /\ \E sec \in SecondTokens :
         events \in {<<parse_event_response(d1), parse_event_response(d2)>> :
                        d1 \in {d \in TokenResponses("s1", sec) : ~d.markets[1].closed},
                        d2 \in {d \in TokenResponses("s2", <<>>) : ~d.markets[1].closed}}
    /\ prior = <<>>
    /\ raw_data = <<>>
    /\ polled = <<>>
    /\ closed_alerts = <<>>
    /\ slugs_to_remove = <<>>
    /\ spikes = <<>>
    /\ warnings = <<>>
    /\ sent = <<>>
    /\ removed = {}
    /\ market_stats = <<>>
    /\ entries = EmptyMap
    /\ clob_data = <<>>
    /\ zscore_alerts = <<>>
    /\ mad_alerts = <<>>
    /\ suppressed = <<>>
    /\ clob_token_ids = <<>>
    /\ config \in TokenConfigs
    /\ now = 0
    /\ arg = None
    /\ ret = None
    /\ pc = "cycle"
    /\ WindowIdle /\ MainIdle

\* run_poll_cycle from its start to the removal of the closed events
TokenStart ==
    /\ pc = "cycle"
    /\ entries' = cleanup_stale(entries, config, now)
    /\ prior' = events
    /\ \E fetched \in TokenFetches(events) :
         \E new_data \in {fetch_all_events_raw(events, fetched)} :
           \E out \in {closed_stage(events, new_data, config, sent)} :
              /\ raw_data' = new_data
              /\ events' = out.events
              /\ closed_alerts' = out.closed_alerts
              /\ slugs_to_remove' = out.slugs_to_remove
              /\ removed' = removed \cup {out.slugs_to_remove[i] :
                                              i \in 1..Len(out.slugs_to_remove)}
              /\ sent' = out.sent
    /\ pc' = "poll"
    /\ UNCHANGED <<now, polled, spikes, warnings, clob_token_ids, clobVars>>
    /\ CycleFrame

\* run_poll_cycle from poll_all_events to `if clob_token_ids:`
TokenPoll ==
    /\ pc = "poll"
    /\ \E fetched \in TokenFetches(events) :
         \E out \in {poll_stage(events, fetched, config, sent)} :
            \E ids \in {IF config.clob_token_ids # <<>>
                        THEN config.clob_token_ids
                        ELSE extract_clob_token_ids(out.events)} :
              /\ polled' = fetched
              /\ events' = out.events
              /\ spikes' = out.spikes
              /\ warnings' = out.warnings
              /\ sent' = out.sent
              /\ clob_token_ids' = ids
              /\ pc' = IF ids # <<>> THEN "clob" ELSE "sleep"
    /\ UNCHANGED <<now, entries, prior, raw_data, closed_alerts, slugs_to_remove,
                   removed, clobVars>>
    /\ CycleFrame

\* run_clob_poll_cycle
TokenClob ==
    /\ pc = "clob"
    /\ \E data \in TokenResults(clob_token_ids) :
        \E out \in {run_clob_poll_cycle(market_stats, entries, data, config, now)} :
              /\ clob_data' = data
              /\ market_stats' = out.ms
              /\ entries' = out.entries
              /\ zscore_alerts' = out.zscore_alerts
              /\ mad_alerts' = out.mad_alerts
              /\ suppressed' = out.suppressed
              /\ sent' = send_if_any(send_if_any(sent, "zscore", out.zscore_alerts),
                                     "mad", out.mad_alerts)
    /\ pc' = "sleep"
    /\ UNCHANGED <<now, clob_token_ids, events, prior, raw_data, polled,
                   closed_alerts, slugs_to_remove, spikes, warnings, removed>>
    /\ CycleFrame

\* the cycle returns and the loop sleeps; the locals of the cycle are gone
TokenSleep ==
    /\ pc = "sleep"
    /\ now < MaxTokenTime
    /\ now' = now + 1
    /\ pc' = "cycle"
    /\ prior' = <<>>
    /\ raw_data' = <<>>
    /\ polled' = <<>>
    /\ closed_alerts' = <<>>
    /\ slugs_to_remove' = <<>>
    /\ spikes' = <<>>
    /\ warnings' = <<>>
    /\ sent' = <<>>
    /\ clob_token_ids' = <<>>
    /\ clob_data' = <<>>
    /\ zscore_alerts' = <<>>
    /\ mad_alerts' = <<>>
    /\ suppressed' = <<>>
    /\ UNCHANGED <<events, entries, market_stats, removed>>
    /\ CycleFrame

NextTokens == TokenStart \/ TokenPoll \/ TokenClob \/ TokenSleep

SpecTokens == InitTokens /\ [][NextTokens]_vars

\* the set of the items of a sequence
ItemsOf(seq) == {seq[i] : i \in 1..Len(seq)}

MarketsOf(evs) == UNION {ItemsOf(evs[i].markets) : i \in 1..Len(evs)}

\* the token ids of the markets of the events state that are not closed
OpenTokens(evs) ==
    {Val(m.clob_token_id) : m \in {x \in MarketsOf(evs) : ~x.is_closed /\ x.clob_token_id # None}}

\* the token ids of the closed markets of the events state, and of the
\* events this cycle removed
ClosedTokens(evs) ==
    {Val(m.clob_token_id) : m \in {x \in MarketsOf(evs) : x.is_closed /\ x.clob_token_id # None}}

RemovedTokens ==
    {Val(m.clob_token_id) :
        m \in {x \in MarketsOf(SelectSeq(prior, LAMBDA ev : ev.slug \in ItemsOf(slugs_to_remove))) :
                  x.clob_token_id # None}}

\* the token got an observation with this cycle's timestamp
ObservedNow(token) ==
    \E st \in StatsOf(market_stats, token) :
        \E w \in {st.price_1h, st.price_4h, st.volume_1h, st.volume_4h} :
            \E i \in 1..Len(w) : w[i].timestamp = now

AfterTokenChoice == pc \in {"clob", "sleep"}

-----------------------------------------------------------------------------
(* Properties of the event half of the cycle about what is removed.        *)

\* C33: an event is in the removal list of a cycle, and gone from events
\* after the closed stage, only if the snapshot of the cycle reports every
\* one of its tracked markets with closed = true; a tracked market the
\* snapshot does not list does not count as closed.
C33_RemovedOnlyIfAllReportedClosed ==
    pc = "poll" =>
        \A i \in 1..Len(prior) :
            (prior[i].slug \in ItemsOf(slugs_to_remove) \/ prior[i].slug \notin Slugs(events))
            => \A m \in 1..Len(prior[i].markets) :
                  ReportedClosed(prior[i].slug, prior[i].markets[m].question)

\* the tracked market of events with this (slug, question, outcome) exists
\* and has the given is_closed
TrackedClosedIs(evs, slug, question, outcome, closed) ==
    \E i \in 1..Len(evs) : \E j \in 1..Len(evs[i].markets) :
        /\ evs[i].slug = slug
        /\ evs[i].markets[j].question = question
        /\ evs[i].markets[j].outcome = outcome
        /\ evs[i].markets[j].is_closed = closed

\* C34: with the closed detector enabled, whenever a step of the cycle turns
\* the tracked is_closed of a market from false to true, the closed alerts
\* of that cycle hold an alert for the market.
C34_ClosingAlwaysAlerted ==
    [][("closed" \in config.detectors) =>
         \A i \in 1..Len(events) : \A j \in 1..Len(events[i].markets) :
            (/\ ~events[i].markets[j].is_closed
             /\ TrackedClosedIs(events', events[i].slug, events[i].markets[j].question,
                                events[i].markets[j].outcome, TRUE))
            => \E a \in 1..Len(closed_alerts') :
                  /\ closed_alerts'[a].event_slug = events[i].slug
                  /\ closed_alerts'[a].market_question = events[i].markets[j].question
                  /\ closed_alerts'[a].outcome = events[i].markets[j].outcome]_vars

-----------------------------------------------------------------------------
(* The closed alerts of several cycles: one event with two markets that    *)
(* close upstream and never reopen, both fetches of a cycle free to fail,  *)
(* a cycle free to abort after its closed stage.  `sent` is kept from      *)
(* cycle to cycle here: it is everything the alerter was handed so far.    *)

MaxOnceTime == 2

\* what the upstream reports for s1 at this moment
OnceResponse(c1, c2) ==
    [slug |-> "s1", title |-> "E1",
     markets |-> <<TokenMarket("m1", "q1", <<"t1">>, c1),
                   TokenMarket("m2", "q2", <<"t2">>, c2)>>]

OnceFetches(evs, upstream) ==
    [1..Len(evs) -> {None, Some(OnceResponse(upstream[1], upstream[2]))}]

OnceConfig ==
    [detectors |-> AllDetectors, spike_threshold |-> 20, lvr_threshold |-> 8,
     clob_token_ids |-> <<>>, zscore_threshold |-> 1, mad_multiplier |-> 1,
     cooldown_minutes |-> 0, escalation_threshold |-> R(1)]

InitOnce ==
    /\ events = <<parse_event_response(OnceResponse(FALSE, FALSE))>>
    /\ arg = Some(<<FALSE, FALSE>>)
    /\ prior = <<>>
    /\ raw_data = <<>>
    /\ polled = <<>>
    /\ closed_alerts = <<>>
    /\ slugs_to_remove = <<>>
    /\ spikes = <<>>
    /\ warnings = <<>>
    /\ sent = <<>>
    /\ removed = {}
    /\ entries = EmptyMap
    /\ clob_token_ids = <<>>
    /\ config = OnceConfig
    /\ now = 0
    /\ ret = None
    /\ pc = "cycle"
    /\ WindowIdle /\ ClobIdle /\ MainIdle

OnceFrame == UNCHANGED <<ret, config, windowVars, clobVars, mainVars>>

\* the upstream closes a market
OnceClose ==
    /\ \E k \in 1..2 : ~Val(arg)[k] /\ arg' = Some([Val(arg) EXCEPT ![k] = TRUE])
    /\ UNCHANGED <<now, pc, entries, clob_token_ids, gammaVars>>
    /\ OnceFrame

\* run_poll_cycle from its start to the removal of the closed events
OnceStart ==
    /\ pc = "cycle"
    /\ entries' = cleanup_stale(entries, config, now)
    /\ prior' = events
    /\ \E fetched \in OnceFetches(events, Val(arg)) :
         \E new_data \in {fetch_all_events_raw(events, fetched)} :
           \E out \in {closed_stage(events, new_data, config, sent)} :
              /\ raw_data' = new_data
              /\ events' = out.events
              /\ closed_alerts' = out.closed_alerts
              /\ slugs_to_remove' = out.slugs_to_remove
              /\ removed' = removed \cup ItemsOf(out.slugs_to_remove)
              /\ sent' = out.sent
    /\ pc' = "poll"
    /\ UNCHANGED <<arg, now, polled, spikes, warnings, clob_token_ids>>
    /\ OnceFrame

\* run_poll_cycle from poll_all_events to the choice of the token ids
OncePoll ==
    /\ pc = "poll"
    /\ \E fetched \in OnceFetches(events, Val(arg)) :
         \E out \in {poll_stage(events, fetched, config, sent)} :
              /\ polled' = fetched
              /\ events' = out.events
              /\ spikes' = out.spikes
              /\ warnings' = out.warnings
              /\ sent' = out.sent
              /\ clob_token_ids' = extract_clob_token_ids(out.events)
    /\ pc' = "sleep"
    /\ UNCHANGED <<arg, now, entries, prior, raw_data, closed_alerts, slugs_to_remove,
                   removed>>
    /\ OnceFrame

\* an exception out of poll_all_events ends the cycle: `except Exception` in
\* main_async logs it, and events stays as the closed stage left it
OnceAbort ==
    /\ pc = "poll"
    /\ pc' = "sleep"
    /\ UNCHANGED <<arg, now, entries, clob_token_ids, gammaVars>>
    /\ OnceFrame

\* the loop sleeps; the locals of the cycle are gone
OnceSleep ==
    /\ pc = "sleep"
    /\ now < MaxOnceTime
    /\ now' = now + 1
    /\ pc' = "cycle"
    /\ prior' = <<>>
    /\ raw_data' = <<>>
    /\ polled' = <<>>
    /\ closed_alerts' = <<>>
    /\ slugs_to_remove' = <<>>
    /\ spikes' = <<>>
    /\ warnings' = <<>>
    /\ clob_token_ids' = <<>>
    /\ UNCHANGED <<arg, events, entries, removed, sent>>
    /\ OnceFrame

NextOnce == OnceClose \/ OnceStart \/ OncePoll \/ OnceAbort \/ OnceSleep

SpecOnce == InitOnce /\ [][NextOnce]_vars

\* how many alerts of the closed batches handed over so far name the market
RECURSIVE ClosedAlertsFor(_, _, _)
ClosedAlertsFor(log, question, outcome) ==
    IF log = <<>> THEN 0
    ELSE (IF Head(log).kind = "closed"
          THEN Cardinality({a \in 1..Len(Head(log).alerts) :
                               /\ Head(log).alerts[a].event_slug = "s1"
                               /\ Head(log).alerts[a].market_question = question
                               /\ Head(log).alerts[a].outcome = outcome})
          ELSE 0)
         + ClosedAlertsFor(Tail(log), question, outcome)

\* C35: over the cycles of a run at most one ClosedMarket alert is handed to
\* the alerter for a tracked market (event slug, question, outcome).
C35_AtMostOneClosedAlert ==
    \A question \in {"q1", "q2"} : ClosedAlertsFor(sent, question, "Yes") <= 1

-----------------------------------------------------------------------------
(* Properties of the event half of the cycle about spikes.                 *)

\* C36: in a cycle where poll_all_events could not fetch an event, the
\* spike detector emits no alert for the markets of that event.
C36_NoSpikeWithoutSnapshot ==
    pc = "sleep" =>
        \A i \in 1..Len(events) :
            polled[i] = None =>
                \A s \in 1..Len(spikes) : spikes[s].event_name # events[i].name

-----------------------------------------------------------------------------
(* Properties of the token half of the cycle about what an alert stands on. *)

\* the readings of this cycle that were folded into the windows
FoldedNow(market_id) ==
    {k \in 1..Len(clob_data) :
        /\ clob_data[k].market_id = market_id
        /\ clob_data[k].price # None
        /\ clob_data[k].volume # None}

\* C37: every z-score or MAD alert of a cycle is for a token whose reading
\* of this cycle was folded into its windows, and its current_value is that
\* reading (the volume for a z-score alert, the price for a MAD alert).
C37_AlertOnNewObservation ==
    /\ \A a \in 1..Len(zscore_alerts) :
          \E k \in FoldedNow(zscore_alerts[a].market_id) :
              zscore_alerts[a].current_value = R(Val(clob_data[k].volume))
    /\ \A a \in 1..Len(mad_alerts) :
          \E k \in FoldedNow(mad_alerts[a].market_id) :
              mad_alerts[a].current_value = R(Val(clob_data[k].price))

-----------------------------------------------------------------------------
(* Two CooldownManagers given the same record_alert and should_alert calls *)
(* at the same times; cleanup_stale runs on the first only.  `entries` is  *)
(* the first manager's dict, `arg` holds the second's.                     *)

MaxTwinTime == 5

TwinScores == {R(1), R(2)}

TwinConfigs ==
    {[cooldown_minutes |-> c, escalation_threshold |-> R(1)] : c \in {0, 1, 2}}

InitTwin ==
    /\ entries = EmptyMap
    /\ arg = Some(EmptyMap)
    /\ ret = None
    /\ config \in TwinConfigs
    /\ now = 0
    /\ pc = "cooldown"
    /\ clob_token_ids = <<>>
    /\ WindowIdle /\ ClobIdle /\ GammaIdle /\ MainIdle

TwinFrame ==
    UNCHANGED <<config, pc, clob_token_ids, windowVars, clobVars, gammaVars, mainVars>>

TwinShouldAlert ==
    /\ \E key \in CooldownKeys, score \in TwinScores :
          ret' = Some([op |-> "should_alert", key |-> key, score |-> score,
                       out |-> should_alert(entries, config, key, score, now),
                       twin |-> should_alert(Val(arg), config, key, score, now)])
    /\ UNCHANGED <<entries, arg, now>>
    /\ TwinFrame

TwinRecordAlert ==
    /\ \E key \in CooldownKeys, score \in TwinScores :
          /\ entries' = record_alert(entries, key, score, now)
          /\ arg' = Some(record_alert(Val(arg), key, score, now))
          /\ ret' = Some([op |-> "record_alert", key |-> key, score |-> score])
    /\ UNCHANGED now
    /\ TwinFrame

\* cleanup_stale on the first manager only
TwinCleanupStale ==
    /\ entries' = cleanup_stale(entries, config, now)
    /\ ret' = Some([op |-> "cleanup_stale",
                    removed |-> DOMAIN entries \ DOMAIN entries'])
    /\ UNCHANGED <<arg, now>>
    /\ TwinFrame

TwinTick ==
    /\ now < MaxTwinTime
    /\ now' = now + 1
    /\ ret' = None
    /\ UNCHANGED <<entries, arg>>
    /\ TwinFrame

NextTwin == TwinShouldAlert \/ TwinRecordAlert \/ TwinCleanupStale \/ TwinTick

SpecTwin == InitTwin /\ [][NextTwin]_vars

\* C38: whatever record_alert and should_alert calls came before, and
\* whenever cleanup_stale ran, should_alert answers as it does for the
\* manager that never ran cleanup_stale; an entry cleanup_stale has removed
\* had already outlived the cooldown; with cooldown_minutes = 0 nothing is
\* removed.
C38_CleanupChangesNoDecision ==
    /\ IsShouldAlertCall(ret) => Val(ret).out = Val(ret).twin
    /\ \A key \in DOMAIN Val(arg) :
          \/ key \in DOMAIN entries /\ entries[key] = Val(arg)[key]
          \/ /\ key \notin DOMAIN entries
             /\ now - Val(arg)[key].last_alert_time >= config.cooldown_minutes
             /\ config.cooldown_minutes # 0
    /\ DOMAIN entries \subseteq DOMAIN Val(arg)

C38_Witness ==
    /\ IsShouldAlertCall(ret)
    /\ Val(ret).key \in DOMAIN Val(arg)
    /\ Val(ret).key \notin DOMAIN entries
    /\ Val(ret).out
    /\ \E other \in DOMAIN entries :
          /\ now - entries[other].last_alert_time < config.cooldown_minutes

-----------------------------------------------------------------------------
(* The token half of the poll cycle with two tokens that have been polled  *)
(* three times each: cleanup_stale, the token poll, the window update, the *)
(* two detectors, the sleep.                                               *)

MaxKeysTime == 5

KeysTokens == <<"t1", "t2">>

KeysReadings ==
    {<<Some(1), Some(1)>>, <<Some(4), Some(2)>>, <<Some(2), Some(4)>>, <<Some(4), Some(4)>>}

KeysResults ==
    {[k \in 1..Len(KeysTokens) |->
        [market_id |-> KeysTokens[k], price |-> f[k][1], volume |-> f[k][2]]] :
     f \in [1..Len(KeysTokens) -> KeysReadings]}

KeysConfigs ==
    {[detectors |-> {"zscore", "mad"}, zscore_threshold |-> 1, mad_multiplier |-> 1,
      cooldown_minutes |-> c, escalation_threshold |-> R(1)] : c \in {0, 2}}

\* the statistics of a token after the readings of the cycles at 0, 1 and 2
KeysStats(market_id) ==
    stats_after(MarketStatistics(market_id), <<<<1, 1>>, <<2, 2>>, <<1, 1>>>>, <<0, 1, 2>>)

InitKeys ==
    /\ market_stats = <<KeysStats("t1"), KeysStats("t2")>>
    /\ entries = EmptyMap
    /\ clob_data = <<>>
    /\ zscore_alerts = <<>>
    /\ mad_alerts = <<>>
    /\ suppressed = <<>>
    /\ clob_token_ids = <<>>
    /\ config \in KeysConfigs
    /\ now = 3
    /\ arg = None
    /\ ret = None
    /\ pc = "start"
    /\ WindowIdle /\ GammaIdle /\ MainIdle

\* run_poll_cycle up to the token poll: cleanup_stale, then the token ids
KeysStart ==
    /\ pc = "start"
    /\ entries' = cleanup_stale(entries, config, now)
    /\ clob_token_ids' = KeysTokens
    /\ pc' = "clob"
    /\ UNCHANGED <<now, market_stats, clob_data, zscore_alerts, mad_alerts, suppressed>>
    /\ ClobFrame

KeysRunClobPollCycle ==
    /\ pc = "clob"
    /\ \E data \in KeysResults :
        \E out \in {run_clob_poll_cycle(market_stats, entries, data, config, now)} :
              /\ clob_data' = data
              /\ market_stats' = out.ms
              /\ entries' = out.entries
              /\ zscore_alerts' = out.zscore_alerts
              /\ mad_alerts' = out.mad_alerts
              /\ suppressed' = out.suppressed
    /\ pc' = "sleep"
    /\ UNCHANGED <<now, clob_token_ids>>
    /\ ClobFrame

KeysSleep ==
    /\ pc = "sleep"
    /\ now < MaxKeysTime
    /\ now' = now + 1
    /\ pc' = "start"
    /\ clob_token_ids' = <<>>
    /\ clob_data' = <<>>
    /\ zscore_alerts' = <<>>
    /\ mad_alerts' = <<>>
    /\ suppressed' = <<>>
    /\ UNCHANGED <<market_stats, entries>>
    /\ ClobFrame

NextKeys == KeysStart \/ KeysRunClobPollCycle \/ KeysSleep

SpecKeys == InitKeys /\ [][NextKeys]_vars

\* every key a detector can use for the tokens of the cycle
KeysOfCycle ==
    {_make_key(KeysTokens[k], metric, window) :
        k \in 1..Len(KeysTokens), metric \in ClobMetrics, window \in ClobWindows}

\* the alerts and the turned-down candidates of one key in a cycle's output
EmittedFor(zs, ms, key) ==
    Cardinality({j \in 1..Len(zs) : AlertKey(zs[j]) = key})
        + Cardinality({j \in 1..Len(ms) : AlertKey(ms[j]) = key})

TurnedDownFor(sup, key) == Cardinality({j \in 1..Len(sup) : sup[j].key = key})

\* C39: in one cycle every key (token_id, metric, window) gets at most one
\* should_alert evaluation and so at most one alert; z-score alerts carry
\* the metric volume and MAD alerts the metric price; the decision for a
\* key is the one should_alert gives on the entries the cycle started with,
\* and the entry of a key without an alert in the cycle is left as it was.
C39_OneAlertPerKey ==
    [][pc = "clob" =>
        /\ \A key \in KeysOfCycle :
              /\ EmittedFor(zscore_alerts', mad_alerts', key)
                    + TurnedDownFor(suppressed', key) <= 1
              /\ EmittedFor(zscore_alerts', mad_alerts', key) = 0 =>
                    IF key \in DOMAIN entries
                    THEN key \in DOMAIN entries' /\ entries'[key] = entries[key]
                    ELSE key \notin DOMAIN entries'
        /\ \A j \in 1..Len(zscore_alerts') :
              /\ zscore_alerts'[j].metric = "volume"
              /\ AlertKey(zscore_alerts'[j]) \in KeysOfCycle
              /\ should_alert(entries, config, AlertKey(zscore_alerts'[j]),
                              zscore_alerts'[j].zscore, now)
        /\ \A j \in 1..Len(mad_alerts') :
              /\ mad_alerts'[j].metric = "price"
              /\ AlertKey(mad_alerts'[j]) \in KeysOfCycle
              /\ should_alert(entries, config, AlertKey(mad_alerts'[j]),
                              mad_alerts'[j].multiplier, now)
        /\ \A j \in 1..Len(suppressed') :
              /\ suppressed'[j].key \in KeysOfCycle
              /\ ~should_alert(entries, config, suppressed'[j].key,
                               suppressed'[j].score, now)
        /\ DOMAIN entries' \subseteq KeysOfCycle]_vars

\* in one cycle t2 raised a volume alert on each of its windows while the
\* volume and price candidates of t1 on the 4h window were turned down
C39_Witness ==
    /\ pc = "sleep"
    /\ \E i \in 1..Len(zscore_alerts) :
          AlertKey(zscore_alerts[i]) = _make_key("t2", "volume", "1h")
    /\ \E i \in 1..Len(zscore_alerts) :
          AlertKey(zscore_alerts[i]) = _make_key("t2", "volume", "4h")
    /\ \E i \in 1..Len(suppressed) : suppressed[i].key = _make_key("t1", "volume", "4h")
    /\ \E i \in 1..Len(suppressed) : suppressed[i].key = _make_key("t1", "price", "4h")


\* the complete observations a token has received since the start: every
\* one is in its 4h volume window, which loses nothing before MaxClobTime
Received(ms, market_id) ==
    IF IndexOf(ms, market_id) = 0 THEN 0
    ELSE Len(ms[IndexOf(ms, market_id)].volume_4h)

\* the reading of the cycle for the token has a price and a volume
CompleteReading(data, market_id) ==
    \E k \in 1..Len(data) :
        /\ data[k].market_id = market_id
        /\ data[k].price # None
        /\ data[k].volume # None

\* C40: from empty windows on, a cycle adds one to the observations of a
\* token exactly when its reading has both a price and a volume, and a
\* cycle raises no z-score and no MAD alert for a token that has not yet
\* received min_observations complete observations, this cycle's included.
C40_NoAlertDuringWarmUp ==
    [][pc = "clob" =>
        /\ \A market_id \in {"t1"} :
              Received(market_stats', market_id)
                 = Received(market_stats, market_id)
                      + (IF CompleteReading(clob_data', market_id) THEN 1 ELSE 0)
        /\ \A a \in CycleAlerts(zscore_alerts', mad_alerts') :
              /\ Received(market_stats', a.market_id) >= MinObservations
              /\ now + 1 >= MinObservations]_vars

\* in the fifth cycle the token gets its fourth complete observation, one
\* earlier cycle having given it none, and the cycle raises a z-score alert
C40_Witness ==
    /\ pc = "sleep"
    /\ now = MaxClobTime
    /\ Received(market_stats, "t1") = MinObservations
    /\ CompleteReading(clob_data, "t1")
    /\ zscore_alerts # <<>>

=============================================================================
